---------------------------- MODULE Spec2Model ----------------------------
(***************************************************************************)
(* A model of the restock demand predictor of src/api/index.py:            *)
(* LiveCalendarService (holiday cache, calendar resolver),                 *)
(* ChickenRestockPredictor (price forecaster, demand factors, prediction,  *)
(* history log, accuracy) and the routes that record and report.           *)
(*                                                                         *)
(* Representation of the program's values                                  *)
(*   - a datetime is an integer count of ticks; TicksPerDay ticks make a   *)
(*     day, tick 0 of a day is midnight.  Day 0 is 2024-01-01, a Monday.   *)
(*   - a timedelta's .days is the floor of the tick difference divided by  *)
(*     TicksPerDay, as Python normalises timedeltas.                       *)
(*   - an adjustment factor (a float in the code) is an exact integer      *)
(*     count of 1/Scale; Scale is the common denominator of every factor   *)
(*     the code can compute, so sums and comparisons are exact.            *)
(*     A float sum of the code can differ from the exact sum in its last   *)
(*     bit (0.3 - 0.2 + 0.05 is 0.14999999999999997 in the code and 0.15   *)
(*     here), so a total that lies exactly on a threshold can fall on      *)
(*     either side of it in the code.                                      *)
(*   - a price is an integer count of cents.                               *)
(*   - a request reads the clock once: the datetime.now() calls of one     *)
(*     handler all return the value of now.                                *)
(*   - an ISO date string "YYYY-MM-DD" is the tuple <<y, m, d>>.           *)
(***************************************************************************)
EXTENDS Integers, Sequences, FiniteSets, TLC

VARIABLES
    now,          \* datetime.now() of the running request
    apiKey,       \* LiveCalendarService.calendarific_api_key is set
    liveTable,    \* the holidays the external holiday source holds
    cache,        \* LiveCalendarService.cache, by year
    cacheExpiry,  \* LiveCalendarService.cache_expiry, by year
    cal,          \* the last calendar resolver call and its answer
    calPrev,      \* the resolver call before it (observer of the pair claims)
    csv,          \* the price history file /tmp/ExFarmPrice.csv
    fc,           \* the last get_price_forecast call and its answer
    pred,         \* the last predict_restock_demand call and its answer
    predPrev,     \* the prediction before it (observer of the pair claims)
    history,      \* ChickenRestockPredictor.history, the persisted log
    resp          \* the last answer of the record / accuracy / history routes

vars == <<now, apiKey, liveTable, cache, cacheExpiry, cal, calPrev, csv, fc,
          pred, predPrev, history, resp>>

None == "none"

(***************************************************************************)
(* Bounds of the model.                                                    *)
(***************************************************************************)
TicksPerDay == 2
MaxHolidays == 2

(***************************************************************************)
(* Fixed point unit of the adjustment factors: 1/42000.  Every factor of   *)
(* the code is a multiple of it: bases are multiples of 1/20, the          *)
(* pre-festival decay multiplies by 7/10 and k/pre_days (pre_days in       *)
(* 1,2,3,5), the Ramadan ramp adds multiples of 1/70, Friday is 3/25.      *)
(***************************************************************************)
Scale == 6000 * 7

\* The float literal n/100 (0.12 is Pct(12)).
Pct(n) == (n * Scale) \div 100

(***************************************************************************)
(* Calendar arithmetic: datetime(y, m, d), .year, .month, .day, .weekday(),*)
(* strftime('%Y-%m-%d'), datetime.fromisoformat.                           *)
(***************************************************************************)
Years == 2024 .. 2028

IsLeap(y) == (y % 4 = 0 /\ y % 100 # 0) \/ y % 400 = 0

DaysInMonth(y, m) ==
    IF m = 2 THEN (IF IsLeap(y) THEN 29 ELSE 28)
    ELSE IF m \in {4, 6, 9, 11} THEN 30 ELSE 31

DaysInYear(y) == IF IsLeap(y) THEN 366 ELSE 365

RECURSIVE DaysBeforeYear(_)
DaysBeforeYear(y) == IF y <= 2024 THEN 0 ELSE DaysBeforeYear(y - 1) + DaysInYear(y - 1)

RECURSIVE DaysBeforeMonth(_, _)
DaysBeforeMonth(y, m) == IF m <= 1 THEN 0 ELSE DaysBeforeMonth(y, m - 1) + DaysInMonth(y, m - 1)

\* Tables of the two sums, evaluated once.
YearStart == [y \in 2024 .. 2029 |-> DaysBeforeYear(y)]
MonthStart == [y \in Years |-> [m \in 1 .. 13 |-> YearStart[y] + DaysBeforeMonth(y, m)]]

\* The day number of the calendar date y-m-d.
DayNum(y, m, d) == MonthStart[y][m] + d - 1

\* datetime(y, m, d): midnight of that date.
Datetime(y, m, d) == DayNum(y, m, d) * TicksPerDay

DayOf(t) == t \div TicksPerDay

YearOf(t) == CHOOSE y \in Years : YearStart[y] <= DayOf(t) /\ DayOf(t) < YearStart[y + 1]

MonthOf(t) ==
    LET y == YearOf(t)
    IN  CHOOSE m \in 1 .. 12 : MonthStart[y][m] <= DayOf(t) /\ DayOf(t) < MonthStart[y][m + 1]

DayOfMonth(t) == DayOf(t) - MonthStart[YearOf(t)][MonthOf(t)] + 1

\* datetime.weekday(): Monday is 0.  2024-01-01 was a Monday.
Weekday(t) == DayOf(t) % 7

\* target_date.strftime('%Y-%m-%d'): the time of day is dropped.
Strftime(t) == <<YearOf(t), MonthOf(t), DayOfMonth(t)>>

\* datetime.fromisoformat('YYYY-MM-DD'): midnight of the date.
FromIso(iso) == Datetime(iso[1], iso[2], iso[3])

\* (a - b).days
DaysBetween(a, b) == (a - b) \div TicksPerDay

\* timedelta(days=n), timedelta(hours=24)
Days(n) == n * TicksPerDay

(***************************************************************************)
(* LiveCalendarService.get_event_factor                                    *)
(***************************************************************************)
\* major_festivals, in the dict's order.
MajorFestivals == <<
    [key |-> "Chinese New Year",     factor |-> Pct(40), pre_days |-> 5, post_days |-> 2],
    [key |-> "Hari Raya Aidilfitri", factor |-> Pct(50), pre_days |-> 5, post_days |-> 2],
    [key |-> "Hari Raya Haji",       factor |-> Pct(30), pre_days |-> 3, post_days |-> 1],
    [key |-> "Hari Raya Aidiladha",  factor |-> Pct(30), pre_days |-> 3, post_days |-> 1],
    [key |-> "Christmas",            factor |-> Pct(30), pre_days |-> 3, post_days |-> 1],
    [key |-> "Deepavali",            factor |-> Pct(25), pre_days |-> 3, post_days |-> 1],
    [key |-> "Diwali",               factor |-> Pct(25), pre_days |-> 3, post_days |-> 1] >>

\* festival_key.lower() in holiday_name.lower(), for the holiday names of the model.
NameContains(name, key) ==
    \/ name = key
    \/ name = "Second Day of Chinese New Year" /\ key = "Chinese New Year"
    \/ name = "Christmas Day" /\ key = "Christmas"

EventConfig(f) == [factor |-> f.factor, pre_days |-> f.pre_days, post_days |-> f.post_days]

GetEventFactor(name, type) ==
    LET hits == {i \in 1 .. Len(MajorFestivals) : NameContains(name, MajorFestivals[i].key)}
    IN  IF hits # {}
        THEN EventConfig(MajorFestivals[CHOOSE i \in hits : \A j \in hits : i <= j])
        ELSE IF type = "national"
             THEN [factor |-> Pct(20), pre_days |-> 2, post_days |-> 0]
             ELSE [factor |-> Pct(15), pre_days |-> 1, post_days |-> 0]

(***************************************************************************)
(* LiveCalendarService._process_holidays                                   *)
(***************************************************************************)
NoEvent == [has_event |-> FALSE]

Event(name, factor, type, source, days) ==
    [has_event |-> TRUE, event_name |-> name, factor |-> factor, type |-> type,
     source |-> source, days |-> days]

\* The first loop: the first holiday whose date string equals the target's.
ExactMatches(t, holidays) == {i \in 1 .. Len(holidays) : holidays[i].date = Strftime(t)}

\* Mutant: the decay inverted, days_before / pre_days for 1 - days_before / pre_days.
ProximityFactorInverted(config, days_before) ==
    (config.factor * days_before * 7) \div (config.pre_days * 10)

\* The proximity factor of the second loop.
ProximityFactor(config, days_before) ==
    (config.factor * (config.pre_days - days_before) * 7) \div (config.pre_days * 10)

\* One iteration of the second loop: the event holiday h gives, or NoEvent.
ProximityEvent(t, h, source) ==
    LET holiday_date == FromIso(h.date)
        days_before  == DaysBetween(holiday_date, t)
        days_after   == DaysBetween(t, holiday_date)
        config       == GetEventFactor(h.name, h.type)
    IN  IF 0 < days_before /\ days_before <= config.pre_days
        THEN Event(h.name, ProximityFactor(config, days_before), "pre-festival", source, days_before)
        ELSE IF 0 < days_after /\ days_after <= config.post_days
             THEN Event(h.name, 0 - Pct(25), "post-festival", source, days_after)
             ELSE NoEvent

\* Mutant: one loop, each holiday tested for its date and then for its
\* windows before the next holiday is looked at.
ProcessHolidaysOneLoop(t, holidays, source) ==
    LET hit == {i \in 1 .. Len(holidays) :
                   \/ holidays[i].date = Strftime(t)
                   \/ ProximityEvent(t, holidays[i], source).has_event}
    IN  IF hit = {} THEN NoEvent
        ELSE LET h == holidays[CHOOSE i \in hit : \A j \in hit : i <= j]
             IN  IF h.date = Strftime(t)
                 THEN Event(h.name, GetEventFactor(h.name, h.type).factor, "festival", source, 0)
                 ELSE ProximityEvent(t, h, source)

ProcessHolidays(t, holidays, source) ==
    LET exact == ExactMatches(t, holidays)
        near  == {i \in 1 .. Len(holidays) : ProximityEvent(t, holidays[i], source).has_event}
    IN  IF exact # {}
        THEN LET h == holidays[CHOOSE i \in exact : \A j \in exact : i <= j]
             IN  Event(h.name, GetEventFactor(h.name, h.type).factor, "festival", source, 0)
        ELSE IF near # {}
             THEN ProximityEvent(t, holidays[CHOOSE i \in near : \A j \in near : i <= j], source)
             ELSE NoEvent

(***************************************************************************)
(* LiveCalendarService._check_ramadan_period, _check_school_holidays,      *)
(* _get_rule_based_events                                                  *)
(***************************************************************************)
RamadanYears == {2025, 2026, 2027}

RamadanPeriods == [y \in RamadanYears |->
    CASE y = 2025 -> [start |-> Datetime(2025, 3, 1),  end |-> Datetime(2025, 3, 30)]
      [] y = 2026 -> [start |-> Datetime(2026, 2, 18), end |-> Datetime(2026, 3, 19)]
      [] y = 2027 -> [start |-> Datetime(2027, 2, 8),  end |-> Datetime(2027, 3, 9)]]

CheckRamadanPeriod(t) ==
    LET year == YearOf(t)
    IN  IF year \in RamadanYears /\ RamadanPeriods[year].start <= t /\ t <= RamadanPeriods[year].end
        THEN LET days_to_end == DaysBetween(RamadanPeriods[year].end, t)
             IN  IF days_to_end <= 14
                 THEN Event("Ramadan (approaching Raya)",
                            Pct(15) + ((14 - days_to_end) * Pct(20)) \div 14,
                            "ramadan", "calculated", days_to_end)
                 ELSE Event("Ramadan", Pct(10), "ramadan", "calculated", days_to_end)
        ELSE NoEvent

SchoolHolidays == <<
    [start |-> Datetime(2024, 11, 23), end |-> Datetime(2025, 1, 5),  name |-> "Year End",    factor |-> Pct(15)],
    [start |-> Datetime(2025, 3, 22),  end |-> Datetime(2025, 3, 30), name |-> "Mid Year",    factor |-> Pct(12)],
    [start |-> Datetime(2025, 5, 24),  end |-> Datetime(2025, 6, 8),  name |-> "Mid Year",    factor |-> Pct(12)],
    [start |-> Datetime(2025, 8, 16),  end |-> Datetime(2025, 8, 24), name |-> "Short Break", factor |-> Pct(10)],
    [start |-> Datetime(2025, 11, 22), end |-> Datetime(2026, 1, 4),  name |-> "Year End",    factor |-> Pct(15)],
    [start |-> Datetime(2026, 3, 28),  end |-> Datetime(2026, 4, 5),  name |-> "Mid Year",    factor |-> Pct(12)],
    [start |-> Datetime(2026, 5, 23),  end |-> Datetime(2026, 6, 7),  name |-> "Mid Year",    factor |-> Pct(12)],
    [start |-> Datetime(2026, 8, 22),  end |-> Datetime(2026, 8, 30), name |-> "Short Break", factor |-> Pct(10)],
    [start |-> Datetime(2026, 11, 21), end |-> Datetime(2027, 1, 3),  name |-> "Year End",    factor |-> Pct(15)] >>

CheckSchoolHolidays(t) ==
    LET hits == {i \in 1 .. Len(SchoolHolidays) :
                    SchoolHolidays[i].start <= t /\ t <= SchoolHolidays[i].end}
    IN  IF hits # {}
        THEN LET h == SchoolHolidays[CHOOSE i \in hits : \A j \in hits : i <= j]
             IN  Event(h.name, h.factor, "school-holiday", "configured", 0)
        ELSE NoEvent

NormalDay(name, source) ==
    [has_event |-> FALSE, event_name |-> name, factor |-> 0, type |-> "normal",
     source |-> source, days |-> 0]

GetRuleBasedEvents(t) ==
    LET ramadan_info        == CheckRamadanPeriod(t)
        school_holiday_info == CheckSchoolHolidays(t)
    IN
    IF ramadan_info.has_event THEN ramadan_info
    ELSE IF school_holiday_info.has_event THEN school_holiday_info
    ELSE IF Weekday(t) = 4
         THEN Event("Friday (weekend preparation)", Pct(12), "friday", "rule_based", 0)
         ELSE NormalDay("Normal day", "rule_based")

(***************************************************************************)
(* LiveCalendarService.get_malaysian_holidays                              *)
(***************************************************************************)
NoCache == [present |-> FALSE, holidays |-> <<>>]

\* What the external source answers for a year when the request succeeds.
LiveFor(year) == SelectSeq(liveTable, LAMBDA h : h.date[1] = year)

\* The outcomes of the external request: a 200 answer, an error answer, an
\* exception (timeout, connection error, unreadable body).
FetchOutcomes == {"ok", "api_error", "exception"}

\* cache_key in self.cache and datetime.now() < self.cache_expiry[cache_key]
\* Mutant: a cached list used whatever its age.
CacheFreshForEver(year) == cache[year].present

CacheFresh(year) ==
    cache[year].present /\ now < cacheExpiry[year]

\* The request is issued: no fresh cache entry and a key is configured.
FetchIssued(year) == ~CacheFresh(year) /\ apiKey

\* The list get_malaysian_holidays returns.
HolidaysReturned(year, fetch) ==
    IF CacheFresh(year) THEN cache[year].holidays
    ELSE IF ~apiKey THEN <<>>
    ELSE IF fetch = "ok" THEN LiveFor(year)
    ELSE <<>>

CacheAfter(year, fetch) ==
    IF FetchIssued(year) /\ fetch = "ok"
    THEN [cache EXCEPT ![year] = [present |-> TRUE, holidays |-> LiveFor(year)]]
    ELSE cache

ExpiryAfter(year, fetch) ==
    IF FetchIssued(year) /\ fetch = "ok"
    THEN [cacheExpiry EXCEPT ![year] = now + Days(1)]
    ELSE cacheExpiry

(***************************************************************************)
(* LiveCalendarService.get_calendar_events                                 *)
(***************************************************************************)
NoLookup == 0

\* The year whose holidays are looked up for target t, NoLookup when none is.
LookupYear(t) ==
    IF ~apiKey THEN NoLookup
    ELSE IF YearOf(t) = YearOf(now) THEN YearOf(now)
    ELSE IF YearOf(t) = YearOf(now) + 1 THEN YearOf(now) + 1
    ELSE NoLookup

\* The local list `holidays`.
CalendarHolidays(t, fetch) ==
    IF LookupYear(t) = NoLookup THEN <<>> ELSE HolidaysReturned(LookupYear(t), fetch)

CalendarEvents(t, fetch) ==
    IF ~apiKey THEN NormalDay("Normal day (no calendar data)", "no_api_key")
    ELSE LET holidays == CalendarHolidays(t, fetch)
             result   == ProcessHolidays(t, holidays, "live_api")
         IN  IF holidays = <<>> THEN GetRuleBasedEvents(t)
             ELSE IF result.has_event THEN result
             ELSE GetRuleBasedEvents(t)

CalendarCacheAfter(t, fetch) ==
    IF LookupYear(t) = NoLookup THEN cache ELSE CacheAfter(LookupYear(t), fetch)

CalendarExpiryAfter(t, fetch) ==
    IF LookupYear(t) = NoLookup THEN cacheExpiry ELSE ExpiryAfter(LookupYear(t), fetch)

NoCall == [called |-> FALSE]

\* A call of the resolver as the routes make it: /api/calendar/test with a
\* parsed date, or the predictor with its target date.
GetCalendarEvents(t, fetch) ==
    /\ cal' = [called |-> TRUE, target |-> t,
               holidays |-> CalendarHolidays(t, fetch),
               result |-> CalendarEvents(t, fetch)]
    /\ cache' = CalendarCacheAfter(t, fetch)
    /\ cacheExpiry' = CalendarExpiryAfter(t, fetch)

(***************************************************************************)
(* The price history file: ChickenRestockPredictor.parse_date_range and    *)
(* the frames get_current_price and get_price_forecast build from it.      *)
(* A row is [range, price]; a Date_Range label is the sequence of its      *)
(* parts around ' - ', each part a day.month.year triple <<d, m, y>>.      *)
(***************************************************************************)
NoDate == 0 - 1

\* datetime.strptime(end_date_str, '%d.%m.%Y') succeeds.
IsDate(part) ==
    /\ part[3] \in Years
    /\ part[2] \in 1 .. 12
    /\ part[1] >= 1 /\ part[1] <= DaysInMonth(part[3], part[2])

ParseDateRange(range) ==
    IF Len(range) = 2 /\ IsDate(range[2])
    THEN Datetime(range[2][3], range[2][2], range[2][1])
    ELSE NoDate

\* df['end_date'] = df['Date_Range'].apply(parse_date_range); dropna.
WithEndDates(rows) ==
    SelectSeq([i \in 1 .. Len(rows) |->
                  [end_date |-> ParseDateRange(rows[i].range), price |-> rows[i].price]],
              LAMBDA r : r.end_date # NoDate)

RECURSIVE Reverse(_)
Reverse(q) == IF q = <<>> THEN <<>> ELSE Append(Reverse(Tail(q)), Head(q))

\* x put into an ascending frame after the rows that are not later than it.
RECURSIVE InsertByEndDate(_, _)
InsertByEndDate(sorted, x) ==
    IF sorted = <<>> THEN <<x>>
    ELSE IF Head(sorted).end_date <= x.end_date
         THEN <<Head(sorted)>> \o InsertByEndDate(Tail(sorted), x)
         ELSE <<x>> \o sorted

\* df.sort_values('end_date'): rows of equal end date keep the file's order
\* (the insertion sort numpy runs on frames of this size).
RECURSIVE SortAscending(_)
SortAscending(q) ==
    IF q = <<>> THEN <<>>
    ELSE InsertByEndDate(SortAscending(SubSeq(q, 1, Len(q) - 1)), q[Len(q)])

\* df.sort_values('end_date', ascending=False): pandas reverses the column,
\* sorts it ascending and reverses the outcome.
SortDescending(q) == Reverse(SortAscending(Reverse(q)))

FallbackPrice == 650

\* ChickenRestockPredictor.get_current_price
GetCurrentPrice ==
    IF ~csv.readable THEN FallbackPrice
    ELSE IF csv.rows = <<>> THEN FallbackPrice
    ELSE IF WithEndDates(csv.rows) = <<>> THEN FallbackPrice
    ELSE SortDescending(WithEndDates(csv.rows))[1].price

(***************************************************************************)
(* Exact fractions <<numerator, denominator>>, denominator positive, for   *)
(* the forecaster's float arithmetic on prices.                            *)
(***************************************************************************)
Abs(n) == IF n < 0 THEN 0 - n ELSE n

RECURSIVE GCD(_, _)
GCD(a, b) == IF b = 0 THEN a ELSE GCD(b, a % b)

Rat(n, d) ==
    LET g == GCD(Abs(n), Abs(d))
        sign == IF d < 0 THEN 0 - 1 ELSE 1
    IN  <<(sign * n) \div g, (sign * d) \div g>>

RatAdd(x, y) == Rat(x[1] * y[2] + y[1] * x[2], x[2] * y[2])
RatMul(x, y) == Rat(x[1] * y[1], x[2] * y[2])
RatLess(x, y) == x[1] * y[2] < y[1] * x[2]
RatMax(x, y) == IF RatLess(x, y) THEN y ELSE x
RatMin(x, y) == IF RatLess(x, y) THEN x ELSE y

\* round(x, 2) of a price in cents: to the nearest cent, an exact decimal
\* half to the even neighbour (a binary float next to a half goes to the
\* side it lies on, one cent away at most).
RoundHalfEven(x) ==
    LET q == x[1] \div x[2]
        r == x[1] - q * x[2]
    IN  IF 2 * r < x[2] THEN q
        ELSE IF 2 * r > x[2] THEN q + 1
        ELSE IF q % 2 = 0 THEN q ELSE q + 1

(***************************************************************************)
(* ChickenRestockPredictor._get_seasonal_price_factor, in hundredths.      *)
(***************************************************************************)
SeasonalPriceFactor(t) ==
    LET month == MonthOf(t)
        day   == DayOfMonth(t)
    IN  IF (month = 1 /\ day > 15) \/ (month = 2 /\ day < 15)
        THEN LET days_to_cny == Abs(DaysBetween(Datetime(2025, 1, 29), t))
             IN  IF days_to_cny < 7 THEN 15
                 ELSE IF days_to_cny < 14 THEN 10
                 ELSE 5
        ELSE IF month \in {3, 4}
        THEN (IF month = 3 /\ day > 20 THEN 15
              ELSE IF month = 4 /\ day < 5 THEN 12
              ELSE 8)
        ELSE IF month = 6 THEN 6
        ELSE IF month \in {11, 12}
        THEN (IF month = 12 /\ day > 15 THEN 10 ELSE 6)
        ELSE 0

(***************************************************************************)
(* ChickenRestockPredictor.get_price_forecast                              *)
(***************************************************************************)
\* recent_df['Avg_Price'].pct_change().dropna(), summed.
RECURSIVE PctChangeSum(_)
PctChangeSum(prices) ==
    IF Len(prices) < 2 THEN <<0, 1>>
    ELSE RatAdd(PctChangeSum(SubSeq(prices, 1, Len(prices) - 1)),
                Rat(prices[Len(prices)] - prices[Len(prices) - 1], prices[Len(prices) - 1]))

\* avg_weekly_change * weeks_ahead, clamped to [-0.15, 0.15].
TrendAdjustment(prices, days_ahead) ==
    IF Len(prices) >= 3
    THEN LET avg_weekly_change == RatMul(PctChangeSum(prices), <<1, Len(prices) - 1>>)
             weeks_ahead       == Rat(days_ahead, 7)
         IN  RatMax(<<0 - 15, 100>>, RatMin(<<15, 100>>, RatMul(avg_weekly_change, weeks_ahead)))
    ELSE <<0, 1>>

RECURSIVE SumSeq(_)
SumSeq(q) == IF q = <<>> THEN 0 ELSE Head(q) + SumSeq(Tail(q))

\* n * sum(p^2) - sum(p)^2, which is n (n - 1) times the sample variance.
Spread(prices) ==
    Len(prices) * SumSeq([i \in 1 .. Len(prices) |-> prices[i] * prices[i]])
        - SumSeq(prices) * SumSeq(prices)

\* std() / mean() < pct / 100, with the sample standard deviation:
\* Spread * n * (10000 / pct^2) < (n - 1) * sum^2.
VolatilityBelow(prices, pct) ==
    LET n     == Len(prices)
        bound == (n - 1) * SumSeq(prices) * SumSeq(prices)
    IN  bound > 0 /\ Spread(prices) <= (bound - 1) \div (n * (10000 \div (pct * pct)))

ForecastConfidence(prices) ==
    IF Len(prices) >= 3
    THEN (IF VolatilityBelow(prices, 5) THEN "High"
          ELSE IF VolatilityBelow(prices, 10) THEN "Medium"
          ELSE "Low")
    ELSE "Low"

\* Mutant: the clamp of the forecast left out.
ClampPriceOff(x) == x

\* max(5.0, min(9.0, forecasted_price)), in cents.
ClampPrice(x) == RatMax(<<500, 1>>, RatMin(<<900, 1>>, x))

Fallback(method) == [forecasted_price |-> FallbackPrice, confidence |-> "Low", method |-> method]

\* The answer from the sorted frame df of the rows with an end date.
ForecastFrom(df, t) ==
    IF df = <<>> THEN Fallback("fallback")
    ELSE LET current_price == df[Len(df)].price
             days_ahead    == DaysBetween(t, now)
             weeks_back    == IF Len(df) < 8 THEN Len(df) ELSE 8
             recent        == [i \in 1 .. weeks_back |-> df[Len(df) - weeks_back + i].price]
             total         == RatAdd(TrendAdjustment(recent, days_ahead),
                                     <<SeasonalPriceFactor(t), 100>>)
             forecasted    == RatMul(<<current_price, 1>>, RatAdd(<<1, 1>>, total))
         IN  IF days_ahead <= 3
             THEN [forecasted_price |-> current_price, confidence |-> "High",
                   method |-> "current"]
             ELSE [forecasted_price |-> RoundHalfEven(ClampPrice(forecasted)),
                   confidence |-> ForecastConfidence(recent),
                   method |-> "trend_seasonal"]

\* The frame is read, parsed and sorted once, then the answer is built.
GetPriceForecast(t) ==
    IF ~csv.readable THEN Fallback("fallback_error")
    ELSE IF csv.rows = <<>> THEN Fallback("fallback")
    ELSE CHOOSE answer \in
             { ForecastFrom(df, t) : df \in {SortAscending(WithEndDates(csv.rows))} } : TRUE

(***************************************************************************)
(* The demand factor engine of ChickenRestockPredictor.                    *)
(***************************************************************************)
\* Mutant: a failed stock request read as no stock at all.
FetchCurrentStockNoFallback(api) ==
    IF api.kind = "ok"
    THEN [factory_stock |-> api.factory, kiosk_stock |-> api.kiosk]
    ELSE [factory_stock |-> 0, kiosk_stock |-> 0]

\* The stock API's answer: "ok" with the factory count of item 11 and the
\* kiosks' summed count, an unsuccessful flag, or a failed request.
FetchCurrentStock(api) ==
    IF api.kind = "ok"
    THEN [factory_stock |-> api.factory, kiosk_stock |-> api.kiosk]
    ELSE [factory_stock |-> 500, kiosk_stock |-> 300]

\* Mutant: the normal price itself no longer counts as elevated.
GetPriceAdjustmentFactorStrict(price) ==
    IF price >= 680 THEN Pct(30)
    ELSE IF price > 650 THEN Pct(15)
    ELSE IF price <= 620 THEN 0 - Pct(20)
    ELSE 0

\* price in cents.
GetPriceAdjustmentFactor(price) ==
    IF price >= 680 THEN Pct(30)
    ELSE IF price >= 650 THEN Pct(15)
    ELSE IF price <= 620 THEN 0 - Pct(20)
    ELSE 0

\* Mutant: the first band of the inventory factor ends at 50, not at 100.
CalculateInventoryFactorShifted(factory_stock, kiosk_stock) ==
    LET total_stock == factory_stock + kiosk_stock
    IN  IF total_stock < 50 THEN Pct(50)
        ELSE IF total_stock < 300 THEN Pct(30)
        ELSE IF total_stock < 500 THEN Pct(10)
        ELSE IF total_stock > 1500 THEN 0 - Pct(30)
        ELSE IF total_stock > 1000 THEN 0 - Pct(15)
        ELSE 0

CalculateInventoryFactor(factory_stock, kiosk_stock) ==
    LET total_stock == factory_stock + kiosk_stock
    IN  IF total_stock < 100 THEN Pct(50)
        ELSE IF total_stock < 300 THEN Pct(30)
        ELSE IF total_stock < 500 THEN Pct(10)
        ELSE IF total_stock > 1500 THEN 0 - Pct(30)
        ELSE IF total_stock > 1000 THEN 0 - Pct(15)
        ELSE 0

CalculateDayOfWeekFactor(t) ==
    IF Weekday(t) = 5 THEN Pct(15)
    ELSE IF Weekday(t) = 3 THEN Pct(5)
    ELSE 0

DEMAND_THRESHOLDS ==
    [low |-> 0 - Pct(15), medium_low |-> 0, medium |-> Pct(15),
     medium_high |-> Pct(30), high |-> Pct(30)]

DetermineDemandLevel(total_adjustment) ==
    IF total_adjustment >= DEMAND_THRESHOLDS.high THEN "High"
    ELSE IF total_adjustment >= DEMAND_THRESHOLDS.medium_high THEN "Medium-High"
    ELSE IF total_adjustment >= DEMAND_THRESHOLDS.medium THEN "Medium"
    ELSE IF total_adjustment >= DEMAND_THRESHOLDS.medium_low THEN "Medium-Low"
    ELSE "Low"

\* Mutant: the scores counted from Medium = 0.
ConfidenceScoreFromMedium(label) ==
    IF label = "High" THEN 2
    ELSE IF label = "Medium-High" THEN 1
    ELSE 0

ConfidenceScore(label) ==
    IF label = "High" THEN 3
    ELSE IF label = "Medium-High" THEN 2
    ELSE IF label = "Medium" THEN 1
    ELSE IF label = "Low" THEN 0
    ELSE 1

\* Mutant: the quantity tier returned, the price confidence left out.
CalculateConfidenceQuantityOnly(total_adjustment, price_confidence) ==
    IF Abs(total_adjustment) > Pct(50) THEN "Medium"
    ELSE IF Abs(total_adjustment) > Pct(30) THEN "Medium-High"
    ELSE "High"

\* _calculate_confidence; avg_score >= 2.5 is twice_avg >= 5.
CalculateConfidence(total_adjustment, price_confidence) ==
    LET quantity_confidence ==
            IF Abs(total_adjustment) > Pct(50) THEN "Medium"
            ELSE IF Abs(total_adjustment) > Pct(30) THEN "Medium-High"
            ELSE "High"
        twice_avg == ConfidenceScore(quantity_confidence) + ConfidenceScore(price_confidence)
    IN  IF twice_avg >= 5 THEN "High"
        ELSE IF twice_avg >= 3 THEN "Medium-High"
        ELSE IF twice_avg >= 1 THEN "Medium"
        ELSE "Low"

\* Mutant: the day-of-week factor left out of the sum.
TotalAdjustmentWithoutDay(inventory_factor, price_factor, calendar_factor, day_factor) ==
    inventory_factor + price_factor + calendar_factor

TotalAdjustment(inventory_factor, price_factor, calendar_factor, day_factor) ==
    inventory_factor + price_factor + calendar_factor + day_factor

\* The price predict_restock_demand resolves for its target.
\* Mutant: the forecaster used from two days ahead on.
PriceInfoForecastAfterOneDay(t) ==
    IF DaysBetween(t, now) > 1
    THEN CHOOSE info \in
             { [price |-> f.forecasted_price, source |-> "forecasted",
                confidence |-> f.confidence, method |-> f.method] :
               f \in {GetPriceForecast(t)} } : TRUE
    ELSE [price |-> GetCurrentPrice, source |-> "current",
          confidence |-> "High", method |-> "current"]

PriceInfo(t) ==
    IF DaysBetween(t, now) > 3
    THEN CHOOSE info \in
             { [price |-> f.forecasted_price, source |-> "forecasted",
                confidence |-> f.confidence, method |-> f.method] :
               f \in {GetPriceForecast(t)} } : TRUE
    ELSE [price |-> GetCurrentPrice, source |-> "current",
          confidence |-> "High", method |-> "current"]

\* The record built from the stock, the price and the calendar answer.
PredictionFrom(t, stock_data, price_info, calendar_info) ==
    LET inventory_factor == CalculateInventoryFactor(stock_data.factory_stock,
                                                     stock_data.kiosk_stock)
        price_factor     == GetPriceAdjustmentFactor(price_info.price)
        calendar_factor  == calendar_info.factor
        day_factor       == CalculateDayOfWeekFactor(t)
        total_adjustment == TotalAdjustment(inventory_factor, price_factor,
                                            calendar_factor, day_factor)
    IN  [called |-> TRUE, target |-> t, target_date |-> Strftime(t),
         demand_level |-> DetermineDemandLevel(total_adjustment),
         current_stock |-> [factory |-> stock_data.factory_stock,
                            kiosk |-> stock_data.kiosk_stock,
                            total |-> stock_data.factory_stock + stock_data.kiosk_stock],
         inventory_factor |-> inventory_factor, price_factor |-> price_factor,
         calendar_factor |-> calendar_factor, day_factor |-> day_factor,
         total_adjustment |-> total_adjustment,
         calendar_event |-> calendar_info, price_info |-> price_info,
         confidence |-> CalculateConfidence(total_adjustment, price_info.confidence)]

\* The record predict_restock_demand returns for a given target date: the
\* stock, the price and the calendar event are each obtained once.
Prediction(t, api, fetch) ==
    CHOOSE result \in
        { PredictionFrom(t, stock_data, price_info, calendar_info) :
          stock_data \in {FetchCurrentStock(api)},
          price_info \in {PriceInfo(t)},
          calendar_info \in {CalendarEvents(t, fetch)} } : TRUE

\* predict_restock_demand(target_date): the record, and the resolver call it
\* makes with the holiday cache that call may fill.
PredictRestockDemand(t, api, fetch) ==
    /\ pred' = Prediction(t, api, fetch)
    /\ GetCalendarEvents(t, fetch)

(***************************************************************************)
(* predict_restock_demand() without a date: the scan for the next restock  *)
(* day.                                                                    *)
(***************************************************************************)
RESTOCK_DAYS == {0, 3, 5}

\* Mutant: the scan starts at tomorrow.
DefaultTargetFromTomorrow(today) ==
    LET hits == {i \in 1 .. 6 : Weekday(today + Days(i)) \in RESTOCK_DAYS}
    IN  IF hits # {}
        THEN today + Days(CHOOSE i \in hits : \A j \in hits : i <= j)
        ELSE today + Days(1)

\* for i in range(7): the first check_date on a restock day, else tomorrow.
DefaultTarget(today) ==
    LET hits == {i \in 0 .. 6 : Weekday(today + Days(i)) \in RESTOCK_DAYS}
    IN  IF hits # {}
        THEN today + Days(CHOOSE i \in hits : \A j \in hits : i <= j)
        ELSE today + Days(1)

\* /api/predict
GetPrediction(api, fetch) == PredictRestockDemand(DefaultTarget(now), api, fetch)

(***************************************************************************)
(* /api/price/update and a read of the forecaster.  A request carries a    *)
(* Date_Range label and a price; the empty label stands for a missing or   *)
(* empty date_range field.                                                 *)
(***************************************************************************)
MissingField == <<>>

Response(status, success, message) ==
    [called |-> TRUE, status |-> status, success |-> success, message |-> message]

UpdatePriceResponse(date_range) ==
    IF date_range = MissingField THEN Response(400, FALSE, "Missing required fields")
    ELSE IF ~csv.readable THEN Response(500, FALSE, "read_csv error")
    ELSE Response(200, TRUE, "Price updated successfully")

UpdatePrice(date_range, price) ==
    /\ resp' = UpdatePriceResponse(date_range)
    /\ csv' = IF UpdatePriceResponse(date_range).status = 200
              THEN [csv EXCEPT !.rows = Append(@, [range |-> date_range, price |-> price])]
              ELSE csv

PriceForecast(t) ==
    fc' = [called |-> TRUE, target |-> t, result |-> GetPriceForecast(t)]

(***************************************************************************)
(* The accuracy tracker: the history log, get_historical_accuracy and the  *)
(* routes /api/record, /api/accuracy and /api/history.  An entry is        *)
(* [timestamp, prediction, actual]; actual is a tier label or None.        *)
(***************************************************************************)
\* Mutant: the new entry put at the head of the log.
AddHistoricalRecordAtHead(prediction, actual) ==
    history' = <<[timestamp |-> now, prediction |-> prediction, actual |-> actual]>>
                   \o history

AddHistoricalRecord(prediction, actual) ==
    history' = Append(history, [timestamp |-> now, prediction |-> prediction,
                                actual |-> actual])

\* Mutant: entries without an actual are counted too.
RecentHistoryWithNulls(days) ==
    SelectSeq(history, LAMBDA h : h.timestamp > now - Days(days))

\* The entries get_historical_accuracy keeps.
RecentHistory(days) ==
    SelectSeq(history, LAMBDA h : h.timestamp > now - Days(days) /\ h.actual # None)

NoData == [present |-> FALSE]

\* get_historical_accuracy; the percentage in hundredths of a percent.
GetHistoricalAccuracy(days) ==
    IF history = <<>> THEN NoData
    ELSE IF RecentHistory(days) = <<>> THEN NoData
    ELSE LET recent_history      == RecentHistory(days)
             correct_predictions == Len(SelectSeq(recent_history,
                                        LAMBDA h : h.prediction.demand_level = h.actual))
             total_predictions   == Len(recent_history)
         IN  [present |-> TRUE,
              accuracy_percentage |->
                  RoundHalfEven(<<correct_predictions * 10000, total_predictions>>),
              correct_predictions |-> correct_predictions,
              total_predictions |-> total_predictions,
              period_days |-> days]

RouteResponse(request, status, success, message, data) ==
    [called |-> TRUE, request |-> request, status |-> status, success |-> success,
     message |-> message, data |-> data]

\* /api/accuracy; parses tells whether int() accepts the days argument.
GetAccuracy(parses, days) ==
    LET request == [route |-> "accuracy", parses |-> parses, days |-> days]
    IN  resp' = IF ~parses
                THEN RouteResponse(request, 500, FALSE, "invalid literal for int()", NoData)
                ELSE IF GetHistoricalAccuracy(days).present
                THEN RouteResponse(request, 200, TRUE, "", GetHistoricalAccuracy(days))
                ELSE RouteResponse(request, 200, TRUE, "Insufficient historical data", NoData)

\* /api/history
GetHistory(parses, days) ==
    LET request == [route |-> "history", parses |-> parses, days |-> days]
    IN  resp' = IF ~parses
                THEN RouteResponse(request, 500, FALSE, "invalid literal for int()", NoData)
                ELSE RouteResponse(request, 200, TRUE, "",
                         [present |-> TRUE,
                          entries |-> SelectSeq(history,
                                          LAMBDA h : h.timestamp > now - Days(days))])

ValidLevels == {"Low", "Medium-Low", "Medium", "Medium-High", "High"}

\* datetime.strptime(date, '%Y-%m-%d') succeeds; the date as the request
\* wrote it, field by field.
StrptimeAccepts(date) == Len(date) = 3 /\ IsDate(<<date[3], date[2], date[1]>>)

\* The answer of /api/record; the empty date and the empty label stand for
\* a missing or empty field.
RecordActualStatus(date, actual_demand) ==
    IF date = MissingField \/ actual_demand = "" THEN 400
    ELSE IF actual_demand \notin ValidLevels THEN 400
    ELSE IF ~StrptimeAccepts(date) THEN 500
    ELSE 200

RecordActualMessage(date, actual_demand) ==
    IF date = MissingField \/ actual_demand = "" THEN "Missing required fields"
    ELSE IF actual_demand \notin ValidLevels THEN "Invalid demand level. Must be one of: valid_levels"
    ELSE IF ~StrptimeAccepts(date) THEN "time data does not match format '%Y-%m-%d'"
    ELSE "Actual demand level recorded"

\* /api/record: the answer and, for an accepted request, the prediction made
\* for the date and the entry appended with it.
RecordActual(date, actual_demand, api, fetch) ==
    LET request == [route |-> "record", date |-> date, actual_demand |-> actual_demand]
        status  == RecordActualStatus(date, actual_demand)
    IN  /\ resp' = RouteResponse(request, status, status = 200,
                                 RecordActualMessage(date, actual_demand), NoData)
        /\ IF status = 200
           THEN /\ PredictRestockDemand(FromIso(date), api, fetch)
                /\ AddHistoricalRecord(pred', actual_demand)
           ELSE UNCHANGED <<pred, cal, cache, cacheExpiry, history>>

(***************************************************************************)
(* predict_next_week and /api/predict/week.  The stock service and the     *)
(* holiday source answer every request of one handler alike, so each       *)
(* prediction of the list is the one its own call returns, and the cache   *)
(* ends up holding every year a successful request was issued for.         *)
(***************************************************************************)
\* Mutant: a scan over 7 days.
WeekTargetsSevenDays(today) ==
    SelectSeq([i \in 1 .. 7 |-> today + Days(i - 1)],
              LAMBDA d : Weekday(d) \in RESTOCK_DAYS)

\* for i in range(14): the check_dates on a restock day, in the loop's order.
WeekTargets(today) ==
    SelectSeq([i \in 1 .. 14 |-> today + Days(i - 1)],
              LAMBDA d : Weekday(d) \in RESTOCK_DAYS)

PredictNextWeek(api, fetch) ==
    [k \in 1 .. Len(WeekTargets(now)) |-> Prediction(WeekTargets(now)[k], api, fetch)]

\* The years the calls of the list look up.
WeekLookupYears == { LookupYear(WeekTargets(now)[k]) : k \in 1 .. Len(WeekTargets(now)) }

\* /api/predict/week
GetWeeklyPredictions(api, fetch) ==
    LET predictions == PredictNextWeek(api, fetch)
        last        == WeekTargets(now)[Len(WeekTargets(now))]
        filled      == { y \in WeekLookupYears \cap Years : FetchIssued(y) /\ fetch = "ok" }
    IN  /\ resp' = RouteResponse([route |-> "week"], 200, TRUE, "",
                                 [present |-> TRUE, predictions |-> predictions])
        /\ pred' = IF predictions = <<>> THEN pred ELSE predictions[Len(predictions)]
        /\ cal' = IF predictions = <<>> THEN cal
                  ELSE [called |-> TRUE, target |-> last,
                        holidays |-> CalendarHolidays(last, fetch),
                        result |-> CalendarEvents(last, fetch)]
        /\ cache' = [y \in Years |->
                        IF y \in filled
                        THEN [present |-> TRUE, holidays |-> LiveFor(y)] ELSE cache[y]]
        /\ cacheExpiry' = [y \in Years |->
                              IF y \in filled THEN now + Days(1) ELSE cacheExpiry[y]]

(***************************************************************************)
(* The calendar specification: a service with or without a key, an         *)
(* external source holding some holiday table, and resolver calls.         *)
(***************************************************************************)
\* Two festivals four days apart, the first on a Friday inside the 2025
\* Ramadan and school-holiday windows; a local holiday on the date of the
\* first; a national day between the two.
HolidayPool == {
    [name |-> "Hari Raya Aidilfitri",           type |-> "national", date |-> <<2025, 3, 28>>],
    [name |-> "Federal Territory Day",          type |-> "local",    date |-> <<2025, 3, 28>>],
    [name |-> "Labour Day",                     type |-> "national", date |-> <<2025, 3, 30>>],
    [name |-> "Second Day of Chinese New Year", type |-> "national", date |-> <<2025, 4, 1>>] }

RECURSIVE SeqsUpTo(_, _)
SeqsUpTo(S, n) ==
    IF n = 0 THEN {<<>>}
    ELSE SeqsUpTo(S, n - 1) \cup {Append(q, x) : q \in {r \in SeqsUpTo(S, n - 1) : Len(r) = n - 1}, x \in S}

HolidayTables == SeqsUpTo(HolidayPool, MaxHolidays)

CalendarNow == Datetime(2025, 3, 10) + 1

\* Parsed request dates: midnights.
CalendarTargetDays == {
    Datetime(2024, 12, 20),
    Datetime(2025, 3, 10), Datetime(2025, 3, 16),
    Datetime(2025, 3, 26), Datetime(2025, 3, 27), Datetime(2025, 3, 28),
    Datetime(2025, 3, 29), Datetime(2025, 3, 30), Datetime(2025, 3, 31),
    Datetime(2025, 4, 1),  Datetime(2025, 4, 4),
    Datetime(2025, 5, 30), Datetime(2026, 1, 9) }

\* The predictor's default target keeps the time of day of now.
CalendarTargets ==
    CalendarTargetDays \cup
    {d + (CalendarNow % TicksPerDay) : d \in {Datetime(2025, 3, 27), Datetime(2025, 3, 30), Datetime(2025, 4, 4)}}

InitRest ==
    /\ calPrev = NoCall
    /\ csv = [readable |-> TRUE, rows |-> <<>>]
    /\ fc = NoCall
    /\ pred = NoCall
    /\ predPrev = NoCall
    /\ history = <<>>
    /\ resp = NoCall

InitCalendar ==
    /\ now = CalendarNow
    /\ apiKey \in BOOLEAN
    /\ liveTable \in HolidayTables
    /\ cache = [y \in Years |-> NoCache]
    /\ cacheExpiry = [y \in Years |-> 0]
    /\ cal = NoCall
    /\ InitRest

CalendarTest ==
    \E t \in CalendarTargets, fetch \in FetchOutcomes :
        /\ GetCalendarEvents(t, fetch)
        /\ UNCHANGED <<now, apiKey, liveTable, calPrev, csv, fc, pred, predPrev, history, resp>>

NextCalendar == CalendarTest

SpecCalendar == InitCalendar /\ [][NextCalendar]_vars

(***************************************************************************)
(* The pair specification: the same service with a key, and an observer    *)
(* that keeps the resolver call before the last one.                       *)
(***************************************************************************)
PairTargets == {
    Datetime(2025, 3, 26), Datetime(2025, 3, 27), Datetime(2025, 3, 28),
    Datetime(2025, 3, 29), Datetime(2025, 3, 30), Datetime(2025, 3, 31) }

InitCalendarPair ==
    /\ now = CalendarNow
    /\ apiKey = TRUE
    /\ liveTable \in HolidayTables
    /\ cache = [y \in Years |-> NoCache]
    /\ cacheExpiry = [y \in Years |-> 0]
    /\ cal = NoCall
    /\ InitRest

CalendarTestPair ==
    \E t \in PairTargets, fetch \in FetchOutcomes :
        /\ GetCalendarEvents(t, fetch)
        /\ calPrev' = cal
        /\ UNCHANGED <<now, apiKey, liveTable, csv, fc, pred, predPrev, history, resp>>

NextCalendarPair == CalendarTestPair

SpecCalendarPair == InitCalendarPair /\ [][NextCalendarPair]_vars

(***************************************************************************)
(* Claims about the calendar resolver.                                     *)
(***************************************************************************)
(* The price specification: a price history file that /api/price/update    *)
(* extends, read by the forecaster for targets around the 3-day boundary   *)
(* and in different seasons.                                               *)
(***************************************************************************)
MaxRows == 3

Week1 == <<<<1, 1, 2025>>, <<7, 1, 2025>>>>
Week2 == <<<<8, 1, 2025>>, <<14, 1, 2025>>>>
Week3 == <<<<15, 1, 2025>>, <<21, 1, 2025>>>>
\* A label without ' - ', and one whose end date is no date.
OnePart == <<<<22, 1, 2025>>>>
BadEnd  == <<<<22, 1, 2025>>, <<31, 2, 2025>>>>

PricePool == {
    [range |-> Week1, price |-> 650],
    [range |-> Week2, price |-> 700],
    [range |-> Week3, price |-> 1200],
    [range |-> Week3, price |-> 400],
    [range |-> BadEnd, price |-> 600] }

PriceNows == { Datetime(2025, 3, 10) + 1, Datetime(2026, 9, 5), Datetime(2026, 10, 31) }

\* Targets of a clock reading: the reading itself, 3, 4 and 10 days later,
\* and the midnight a request's date parses to four days on.
TargetsOf(clock) ==
    { clock, clock + Days(3), clock + Days(4), clock + Days(10),
      Days(DayOf(clock) + 4) }

InitPrice ==
    /\ now \in PriceNows
    /\ apiKey = FALSE
    /\ liveTable = <<>>
    /\ cache = [y \in Years |-> NoCache]
    /\ cacheExpiry = [y \in Years |-> 0]
    /\ cal = NoCall
    /\ calPrev = NoCall
    /\ csv \in { [readable |-> TRUE, rows |-> <<>>], [readable |-> FALSE, rows |-> <<>>] }
    /\ fc = NoCall
    /\ pred = NoCall
    /\ predPrev = NoCall
    /\ history = <<>>
    /\ resp = NoCall

PriceUpdateRoute ==
    \E row \in PricePool \cup {[range |-> MissingField, price |-> 650]} :
        /\ Len(csv.rows) < MaxRows
        /\ UpdatePrice(row.range, row.price)
        /\ UNCHANGED <<now, apiKey, liveTable, cache, cacheExpiry, cal, calPrev,
                       fc, pred, predPrev, history>>

PriceForecastRead ==
    \E t \in TargetsOf(now) :
        /\ PriceForecast(t)
        /\ UNCHANGED <<now, apiKey, liveTable, cache, cacheExpiry, cal, calPrev,
                       csv, pred, predPrev, history, resp>>

NextPrice == PriceUpdateRoute \/ PriceForecastRead

SpecPrice == InitPrice /\ [][NextPrice]_vars

(***************************************************************************)
\* The holidays of the resolver's list that fall on the target date.
OnTargetDate == {i \in 1 .. Len(cal.holidays) :
                    /\ cal.holidays[i].date[1] = YearOf(cal.target)
                    /\ cal.holidays[i].date[2] = MonthOf(cal.target)
                    /\ cal.holidays[i].date[3] = DayOfMonth(cal.target)}

BaseFactorOf(h) == GetEventFactor(h.name, h.type).factor

\* C2 as claimed: whenever the target date is the date of a holiday of the
\* table, the resolver answers kind festival with that holiday's configured
\* base factor, for every holiday of the table on that date.
C2_AsClaimed ==
    cal.called =>
        \A i \in OnTargetDate :
            /\ cal.result.has_event
            /\ cal.result.type = "festival"
            /\ cal.result.factor = BaseFactorOf(cal.holidays[i])

\* C2 as amended: whenever the target date is the date of a holiday of the
\* table, the resolver answers kind festival with the configured base factor
\* of the first holiday listed for that date (one of 0.15, 0.20, 0.25, 0.30,
\* 0.40, 0.50), whatever pre-festival, post-festival, Ramadan, school-holiday
\* or Friday rule also matches the date.
C2_ExactMatchFirstListed ==
    (cal.called /\ OnTargetDate # {}) =>
        LET first == CHOOSE i \in OnTargetDate : \A j \in OnTargetDate : i <= j
        IN  /\ cal.result.has_event
            /\ cal.result.type = "festival"
            /\ cal.result.source = "live_api"
            /\ cal.result.event_name = cal.holidays[first].name
            /\ cal.result.factor = BaseFactorOf(cal.holidays[first])
            /\ cal.result.factor \in {Pct(15), Pct(20), Pct(25), Pct(30), Pct(40), Pct(50)}

\* C2 witness: a festival answer on a date that an earlier-listed holiday's
\* pre- or post-festival window covers and that the static rules match too.
C2_Witness ==
    /\ cal.called
    /\ OnTargetDate # {}
    /\ cal.result.type = "festival"
    /\ ProximityEvent(cal.target, cal.holidays[1], "live_api").has_event
    /\ CheckRamadanPeriod(cal.target).has_event
    /\ CheckSchoolHolidays(cal.target).has_event
    /\ Weekday(cal.target) = 4

\* The static rule chain, stated from the claim: Ramadan window, else
\* school-holiday window, else Friday 0.12, else normal 0.0.
RuleChainKind(t) ==
    IF CheckRamadanPeriod(t).has_event THEN "ramadan"
    ELSE IF CheckSchoolHolidays(t).has_event THEN "school-holiday"
    ELSE IF Weekday(t) = 4 THEN "friday"
    ELSE "normal"

RuleChainFactor(t) ==
    IF CheckRamadanPeriod(t).has_event THEN CheckRamadanPeriod(t).factor
    ELSE IF CheckSchoolHolidays(t).has_event THEN CheckSchoolHolidays(t).factor
    ELSE IF Weekday(t) = 4 THEN Pct(12)
    ELSE 0

\* C3 as claimed: whenever the live source provides no holiday data for the
\* target date (no credential, a failed or raising fetch, an empty list), the
\* resolver answers with the static rule chain's kind and factor; a Friday in
\* no window gets 0.12.
C3_AsClaimed ==
    (cal.called /\ cal.holidays = <<>>) =>
        /\ cal.result.type = RuleChainKind(cal.target)
        /\ cal.result.factor = RuleChainFactor(cal.target)

\* The part of C3 the code keeps: with a credential configured, an empty
\* holiday list leads to the static rule chain.
C3_WithCredential ==
    (cal.called /\ apiKey /\ cal.holidays = <<>>) =>
        /\ cal.result.type = RuleChainKind(cal.target)
        /\ cal.result.factor = RuleChainFactor(cal.target)

\* The holiday h's pre-festival window [event_date - pre_days, event_date).
InPreWindow(t, h) ==
    /\ GetEventFactor(h.name, h.type).pre_days > 0
    /\ t < FromIso(h.date)
    /\ FromIso(h.date) - Days(GetEventFactor(h.name, h.type).pre_days) <= t

\* Two resolver calls on the same non-empty table, the earlier date first.
PairOnSameTable ==
    /\ cal.called /\ calPrev.called
    /\ cal.holidays = calPrev.holidays
    /\ cal.holidays # <<>>
    /\ calPrev.target < cal.target

NotClaimedBefore(t, holidays, i) ==
    /\ \A j \in 1 .. Len(holidays) : holidays[j].date # Strftime(t)
    /\ \A j \in 1 .. (i - 1) :
          LET h      == holidays[j]
              config == GetEventFactor(h.name, h.type)
              before == DaysBetween(FromIso(h.date), t)
              after  == DaysBetween(t, FromIso(h.date))
          IN  /\ ~(0 < before /\ before <= config.pre_days)
              /\ ~(0 < after /\ after <= config.post_days)

FestivalTable == <<
    [name |-> "Hari Raya Aidilfitri", type |-> "national", date |-> <<2025, 3, 28>>],
    [name |-> "Labour Day", type |-> "national", date |-> <<2025, 3, 30>>] >>

File(rows) == [readable |-> TRUE, rows |-> rows]

\* A clock reading with the price file of that day.
PredictScenarios == {
    [now |-> Datetime(2025, 3, 10) + 1,
     csv |-> File(<<[range |-> Week1, price |-> 650], [range |-> Week2, price |-> 700],
                    [range |-> Week3, price |-> 600]>>)],
    [now |-> Datetime(2025, 3, 18) + 1, csv |-> File(<<[range |-> Week1, price |-> 630]>>)],
    [now |-> Datetime(2026, 9, 5), csv |-> File(<<[range |-> Week1, price |-> 650]>>)],
    [now |-> Datetime(2026, 9, 5), csv |-> File(<<[range |-> Week1, price |-> 600]>>)],
    [now |-> Datetime(2026, 9, 5), csv |-> File(<<[range |-> Week1, price |-> 630]>>)],
    [now |-> Datetime(2026, 10, 31), csv |-> File(<<[range |-> Week1, price |-> 650]>>)],
    [now |-> Datetime(2026, 10, 31), csv |-> [readable |-> FALSE, rows |-> <<>>]] }

StockOk(factory, kiosk) == [kind |-> "ok", factory |-> factory, kiosk |-> kiosk]

StockAnswers == {
    StockOk(50, 0), StockOk(150, 100), StockOk(300, 100), StockOk(500, 300),
    StockOk(800, 400), StockOk(1000, 600),
    [kind |-> "unsuccessful"], [kind |-> "exception"] }

InitPredict ==
    /\ \E sc \in PredictScenarios : now = sc.now /\ csv = sc.csv
    /\ apiKey \in BOOLEAN
    /\ liveTable = FestivalTable
    /\ cache = [y \in Years |-> NoCache]
    /\ cacheExpiry = [y \in Years |-> 0]
    /\ cal = NoCall
    /\ calPrev = NoCall
    /\ fc = NoCall
    /\ pred = NoCall
    /\ predPrev = NoCall
    /\ history = <<>>
    /\ resp = NoCall

Predict ==
    \E t \in TargetsOf(now), api \in StockAnswers, fetch \in FetchOutcomes :
        /\ PredictRestockDemand(t, api, fetch)
        /\ UNCHANGED <<now, apiKey, liveTable, calPrev, csv, fc, predPrev, history, resp>>

NextPredict == Predict

SpecPredict == InitPredict /\ [][NextPredict]_vars

(***************************************************************************)
(* The prediction pair specification: predictions one after another, and   *)
(* an observer that keeps the prediction before the last one.              *)
(***************************************************************************)
PairScenarios == {
    [now |-> Datetime(2025, 3, 10) + 1,
     csv |-> File(<<[range |-> Week1, price |-> 650], [range |-> Week2, price |-> 700],
                    [range |-> Week3, price |-> 600]>>)],
    [now |-> Datetime(2026, 9, 5), csv |-> File(<<[range |-> Week1, price |-> 650]>>)] }

PairStockAnswers == { StockOk(50, 0), StockOk(0, 50), StockOk(500, 300), [kind |-> "exception"] }

InitPredictPair ==
    /\ \E sc \in PairScenarios : now = sc.now /\ csv = sc.csv
    /\ apiKey = TRUE
    /\ liveTable = FestivalTable
    /\ cache = [y \in Years |-> NoCache]
    /\ cacheExpiry = [y \in Years |-> 0]
    /\ cal = NoCall
    /\ calPrev = NoCall
    /\ fc = NoCall
    /\ pred = NoCall
    /\ predPrev = NoCall
    /\ history = <<>>
    /\ resp = NoCall

PredictPair ==
    \E t \in TargetsOf(now), api \in PairStockAnswers, fetch \in {"ok", "exception"} :
        /\ PredictRestockDemand(t, api, fetch)
        /\ predPrev' = pred
        /\ UNCHANGED <<now, apiKey, liveTable, calPrev, csv, fc, history, resp>>

NextPredictPair == PredictPair

SpecPredictPair == InitPredictPair /\ [][NextPredictPair]_vars

(***************************************************************************)
(* The stock specification: predictions over stock answers on both sides   *)
(* of every band of the inventory factor.                                  *)
(***************************************************************************)
StockScenarios == {
    [now |-> Datetime(2025, 3, 18) + 1, csv |-> File(<<[range |-> Week1, price |-> 630]>>)],
    [now |-> Datetime(2026, 9, 5), csv |-> File(<<[range |-> Week1, price |-> 650]>>)],
    [now |-> Datetime(2026, 10, 31), csv |-> File(<<[range |-> Week1, price |-> 600]>>)] }

BandStockAnswers == {
    StockOk(0, 0), StockOk(50, 0), StockOk(0, 50), StockOk(25, 25), StockOk(99, 0),
    StockOk(60, 40), StockOk(299, 0), StockOk(0, 300), StockOk(250, 249),
    StockOk(500, 0), StockOk(500, 500), StockOk(1000, 1), StockOk(1500, 0),
    StockOk(1, 1500), StockOk(3000, 3000),
    [kind |-> "unsuccessful"], [kind |-> "exception"] }

InitStock ==
    /\ \E sc \in StockScenarios : now = sc.now /\ csv = sc.csv
    /\ apiKey \in BOOLEAN
    /\ liveTable = FestivalTable
    /\ cache = [y \in Years |-> NoCache]
    /\ cacheExpiry = [y \in Years |-> 0]
    /\ cal = NoCall
    /\ calPrev = NoCall
    /\ fc = NoCall
    /\ pred = NoCall
    /\ predPrev = NoCall
    /\ history = <<>>
    /\ resp = NoCall

PredictStock ==
    \E t \in {now, now + Days(10)}, api \in BandStockAnswers :
        /\ PredictRestockDemand(t, api, "ok")
        /\ UNCHANGED <<now, apiKey, liveTable, calPrev, csv, fc, predPrev, history, resp>>

NextStock == PredictStock

SpecStock == InitStock /\ [][NextStock]_vars

(***************************************************************************)
(* The history specification: a service started on a stored log, taking    *)
(* record requests (valid ones and each kind of invalid one) and reads of  *)
(* the accuracy and the history.                                           *)
(***************************************************************************)
MaxHistory == 3

HistoryNow == Datetime(2025, 3, 10) + 1

Stored(timestamp, predicted, actual) ==
    [timestamp |-> timestamp, prediction |-> [demand_level |-> predicted], actual |-> actual]

StoredLogs == {
    <<>>,
    <<Stored(HistoryNow - Days(40), "Medium", "Medium")>>,
    <<Stored(HistoryNow - 1, "Medium", None)>>,
    <<Stored(HistoryNow - Days(40), "Medium", "Medium"), Stored(HistoryNow - 1, "Medium", None)>>,
    <<Stored(HistoryNow - Days(1), "High", "Medium"), Stored(HistoryNow - Days(1) + 1, "Medium", "Medium"),
      Stored(HistoryNow - 1, "High", "Medium"), Stored(HistoryNow - 1, "Low", None)>>,
    <<Stored(HistoryNow - Days(2), "High", "High"), Stored(HistoryNow - Days(2), "Low", "Low"),
      Stored(HistoryNow - 1, "High", "Medium")>> }

RecordDates == { <<2025, 3, 13>>, <<2025, 3, 15>>, <<13, 3, 2025>>, <<2025, 2, 30>>, MissingField }
RecordLabels == { "Medium", "Huge", "" }
Windows == { 0, 1, 30 }

InitHistory ==
    /\ now = HistoryNow
    /\ apiKey = FALSE
    /\ liveTable = FestivalTable
    /\ cache = [y \in Years |-> NoCache]
    /\ cacheExpiry = [y \in Years |-> 0]
    /\ cal = NoCall
    /\ calPrev = NoCall
    /\ csv = File(<<[range |-> Week1, price |-> 650]>>)
    /\ fc = NoCall
    /\ pred = NoCall
    /\ predPrev = NoCall
    /\ history \in StoredLogs
    /\ resp = NoCall

RecordRoute ==
    \E date \in RecordDates, actual_demand \in RecordLabels :
        /\ RecordActualStatus(date, actual_demand) = 200 => Len(history) < MaxHistory
        /\ RecordActual(date, actual_demand, [kind |-> "exception"], "ok")
        /\ UNCHANGED <<now, apiKey, liveTable, calPrev, csv, fc, predPrev>>

AccuracyRoute ==
    \E parses \in BOOLEAN, days \in Windows :
        /\ GetAccuracy(parses, days)
        /\ UNCHANGED <<now, apiKey, liveTable, cache, cacheExpiry, cal, calPrev,
                       csv, fc, pred, predPrev, history>>

HistoryRoute ==
    \E parses \in BOOLEAN, days \in Windows :
        /\ GetHistory(parses, days)
        /\ UNCHANGED <<now, apiKey, liveTable, cache, cacheExpiry, cal, calPrev,
                       csv, fc, pred, predPrev, history>>

NextHistory == RecordRoute \/ AccuracyRoute \/ HistoryRoute

SpecHistory == InitHistory /\ [][NextHistory]_vars

(***************************************************************************)
(* The degraded specification: predictions while the stock service fails   *)
(* every request, the holiday source answers or fails, and the price file  *)
(* is empty, unreadable, without a parseable row, or in order.             *)
(***************************************************************************)
DegradedFiles == {
    File(<<>>),
    [readable |-> FALSE, rows |-> <<>>],
    File(<<[range |-> BadEnd, price |-> 600], [range |-> OnePart, price |-> 700]>>) }

DegradedNows == { Datetime(2025, 3, 18) + 1, Datetime(2025, 3, 24), Datetime(2026, 10, 31) }

InitDegraded ==
    /\ now \in DegradedNows
    /\ csv \in DegradedFiles \cup {File(<<[range |-> Week1, price |-> 700]>>)}
    /\ apiKey \in BOOLEAN
    /\ liveTable = FestivalTable
    /\ cache = [y \in Years |-> NoCache]
    /\ cacheExpiry = [y \in Years |-> 0]
    /\ cal = NoCall
    /\ calPrev = NoCall
    /\ fc = NoCall
    /\ pred = NoCall
    /\ predPrev = NoCall
    /\ history = <<>>
    /\ resp = NoCall

PredictDegraded ==
    \E t \in TargetsOf(now),
       api \in {[kind |-> "unsuccessful"], [kind |-> "exception"]},
       fetch \in FetchOutcomes :
        /\ PredictRestockDemand(t, api, fetch)
        /\ UNCHANGED <<now, apiKey, liveTable, calPrev, csv, fc, predPrev, history, resp>>

NextDegraded == PredictDegraded

SpecDegraded == InitDegraded /\ [][NextDegraded]_vars

(***************************************************************************)
(* The default-date specification: /api/predict called at midnight and     *)
(* later in the day on each day of a week.                                 *)
(***************************************************************************)
DefaultNows ==
    { Datetime(2025, 3, 10) + Days(k) + tod : k \in 0 .. 6, tod \in 0 .. TicksPerDay - 1 }

InitDefault ==
    /\ now \in DefaultNows
    /\ csv \in { File(<<[range |-> Week1, price |-> 650]>>),
                 File(<<[range |-> Week1, price |-> 650], [range |-> Week2, price |-> 700],
                        [range |-> Week3, price |-> 600]>>) }
    /\ apiKey \in BOOLEAN
    /\ liveTable = FestivalTable
    /\ cache = [y \in Years |-> NoCache]
    /\ cacheExpiry = [y \in Years |-> 0]
    /\ cal = NoCall
    /\ calPrev = NoCall
    /\ fc = NoCall
    /\ pred = NoCall
    /\ predPrev = NoCall
    /\ history = <<>>
    /\ resp = NoCall

PredictDefault ==
    \E api \in {StockOk(50, 0), StockOk(500, 300), [kind |-> "exception"]},
       fetch \in FetchOutcomes :
        /\ GetPrediction(api, fetch)
        /\ UNCHANGED <<now, apiKey, liveTable, calPrev, csv, fc, predPrev, history, resp>>

NextDefault == PredictDefault

SpecDefault == InitDefault /\ [][NextDefault]_vars

(***************************************************************************)
(* The week specification: /api/predict/week called on each day of a week  *)
(* and across the turn of a year.                                          *)
(***************************************************************************)
WeekNows == DefaultNows \cup { Datetime(2025, 12, 24) + 1 }

InitWeek ==
    /\ now \in WeekNows
    /\ csv \in { File(<<[range |-> Week1, price |-> 650]>>), File(<<>>) }
    /\ apiKey \in BOOLEAN
    /\ liveTable = FestivalTable
    /\ cache = [y \in Years |-> NoCache]
    /\ cacheExpiry = [y \in Years |-> 0]
    /\ cal = NoCall
    /\ calPrev = NoCall
    /\ fc = NoCall
    /\ pred = NoCall
    /\ predPrev = NoCall
    /\ history = <<>>
    /\ resp = NoCall

PredictWeek ==
    \E api \in {StockOk(50, 0), [kind |-> "exception"]}, fetch \in FetchOutcomes :
        /\ GetWeeklyPredictions(api, fetch)
        /\ UNCHANGED <<now, apiKey, liveTable, calPrev, csv, fc, predPrev, history>>

NextWeek == PredictWeek

SpecWeek == InitWeek /\ [][NextWeek]_vars

(***************************************************************************)
(* The log specification: record requests, reads of the accuracy and of    *)
(* the history and predictions, while the clock goes on.                   *)
(***************************************************************************)
MaxTicks == 2

InitLog ==
    /\ now = HistoryNow
    /\ apiKey = FALSE
    /\ liveTable = FestivalTable
    /\ cache = [y \in Years |-> NoCache]
    /\ cacheExpiry = [y \in Years |-> 0]
    /\ cal = NoCall
    /\ calPrev = NoCall
    /\ csv = File(<<[range |-> Week1, price |-> 650]>>)
    /\ fc = NoCall
    /\ pred = NoCall
    /\ predPrev = NoCall
    /\ history \in { <<>>, <<Stored(HistoryNow - Days(40), "Medium", None)>> }
    /\ resp = NoCall

LogRecord ==
    \E date \in { <<2025, 3, 13>>, <<13, 3, 2025>> }, actual_demand \in { "Medium", "Huge" } :
        /\ RecordActualStatus(date, actual_demand) = 200 => Len(history) < MaxHistory
        /\ RecordActual(date, actual_demand, [kind |-> "exception"], "ok")
        /\ UNCHANGED <<now, apiKey, liveTable, calPrev, csv, fc, predPrev>>

LogAccuracy ==
    /\ GetAccuracy(TRUE, 30)
    /\ UNCHANGED <<now, apiKey, liveTable, cache, cacheExpiry, cal, calPrev,
                   csv, fc, pred, predPrev, history>>

LogHistory ==
    /\ GetHistory(TRUE, 30)
    /\ UNCHANGED <<now, apiKey, liveTable, cache, cacheExpiry, cal, calPrev,
                   csv, fc, pred, predPrev, history>>

LogPredict ==
    /\ GetPrediction(StockOk(50, 0), "ok")
    /\ UNCHANGED <<now, apiKey, liveTable, calPrev, csv, fc, predPrev, history, resp>>

Tick ==
    /\ now < HistoryNow + MaxTicks
    /\ now' = now + 1
    /\ UNCHANGED <<apiKey, liveTable, cache, cacheExpiry, cal, calPrev, csv, fc,
                   pred, predPrev, history, resp>>

NextLog == LogRecord \/ LogAccuracy \/ LogHistory \/ LogPredict \/ Tick

SpecLog == InitLog /\ [][NextLog]_vars

(***************************************************************************)
(* The calendar-day specification: the service with a key, asked about     *)
(* instants of the same calendar days, at midnight (a parsed request date) *)
(* and later in the day (the default-date scan), and an observer that      *)
(* keeps the call before the last one.                                     *)
(***************************************************************************)
DayTables == { <<>>, <<[name |-> "Hari Raya Aidilfitri", type |-> "national", date |-> <<2025, 3, 28>>]>> }

DayTargetDays == {
    Datetime(2025, 3, 16), Datetime(2025, 3, 23), Datetime(2025, 3, 27),
    Datetime(2025, 3, 29), Datetime(2025, 3, 30), Datetime(2025, 4, 4),
    Datetime(2025, 6, 8) }

DayTargets == {d + k : d \in DayTargetDays, k \in 0 .. TicksPerDay - 1}

InitCalendarDay ==
    /\ now = CalendarNow
    /\ apiKey = TRUE
    /\ liveTable \in DayTables
    /\ cache = [y \in Years |-> NoCache]
    /\ cacheExpiry = [y \in Years |-> 0]
    /\ cal = NoCall
    /\ InitRest

CalendarTestDay ==
    \E t \in DayTargets, fetch \in {"ok", "exception"} :
        /\ GetCalendarEvents(t, fetch)
        /\ calPrev' = cal
        /\ UNCHANGED <<now, apiKey, liveTable, csv, fc, pred, predPrev, history, resp>>

NextCalendarDay == CalendarTestDay

SpecCalendarDay == InitCalendarDay /\ [][NextCalendarDay]_vars

(***************************************************************************)
(* The near-term specification: one price file, read by the forecaster     *)
(* route and by predictions for targets around the three-day boundary.     *)
(***************************************************************************)
NearPool == {
    [range |-> Week2, price |-> 700],
    [range |-> Week3, price |-> 1200],
    [range |-> Week3, price |-> 400],
    [range |-> BadEnd, price |-> 600] }

NearNow == Datetime(2025, 3, 10) + 1

\* The clock reading, 3 and 4 days later, and the midnight a request's date
\* parses to four days on.
NearTargets == { NearNow, NearNow + Days(3), NearNow + Days(4), Days(DayOf(NearNow) + 4) }

InitNear ==
    /\ now = NearNow
    /\ apiKey = FALSE
    /\ liveTable = <<>>
    /\ cache = [y \in Years |-> NoCache]
    /\ cacheExpiry = [y \in Years |-> 0]
    /\ cal = NoCall
    /\ calPrev = NoCall
    /\ csv \in { File(rows) : rows \in SeqsUpTo(NearPool, MaxRows) }
    /\ fc = NoCall
    /\ pred = NoCall
    /\ predPrev = NoCall
    /\ history = <<>>
    /\ resp = NoCall

NearForecast ==
    \E t \in NearTargets :
        /\ PriceForecast(t)
        /\ UNCHANGED <<now, apiKey, liveTable, cache, cacheExpiry, cal, calPrev,
                       csv, pred, predPrev, history, resp>>

NearPredict ==
    \E t \in NearTargets :
        /\ PredictRestockDemand(t, StockOk(50, 0), "ok")
        /\ UNCHANGED <<now, apiKey, liveTable, calPrev, csv, fc, predPrev, history, resp>>

NextNear == NearForecast \/ NearPredict

SpecNear == InitNear /\ [][NextNear]_vars

(***************************************************************************)
(* The confidence specification: predictions whose price confidence is     *)
(* High, Medium and Low, over stock levels and calendar days that put the  *)
(* total adjustment on both sides of 0.3 and of 0.5.                       *)
(***************************************************************************)
ConfidenceFiles == {
    File(<<[range |-> Week1, price |-> 650], [range |-> Week2, price |-> 660],
           [range |-> Week3, price |-> 655]>>),
    File(<<[range |-> Week1, price |-> 600], [range |-> Week2, price |-> 650],
           [range |-> Week3, price |-> 700]>>),
    File(<<[range |-> Week1, price |-> 650]>>),
    File(<<[range |-> Week1, price |-> 600]>>) }

ConfidenceStockAnswers == {
    StockOk(50, 0), StockOk(150, 100), StockOk(300, 100), StockOk(800, 400),
    StockOk(1000, 600), StockOk(1200, 600) }

InitConfidence ==
    /\ now = Datetime(2025, 3, 10) + 1
    /\ csv \in ConfidenceFiles
    /\ apiKey \in BOOLEAN
    /\ liveTable = FestivalTable
    /\ cache = [y \in Years |-> NoCache]
    /\ cacheExpiry = [y \in Years |-> 0]
    /\ cal = NoCall
    /\ calPrev = NoCall
    /\ fc = NoCall
    /\ pred = NoCall
    /\ predPrev = NoCall
    /\ history = <<>>
    /\ resp = NoCall

PredictConfidence ==
    \E t \in {now, now + Days(4), now + Days(10), now + Days(18)},
       api \in ConfidenceStockAnswers :
        /\ PredictRestockDemand(t, api, "ok")
        /\ UNCHANGED <<now, apiKey, liveTable, calPrev, csv, fc, predPrev, history, resp>>

NextConfidence == PredictConfidence

SpecConfidence == InitConfidence /\ [][NextConfidence]_vars

(***************************************************************************)
(* The cache specification: lookups of this year's and of next year's      *)
(* holidays while the clock goes on for two days and the external source   *)
(* changes its table and fails at times.                                   *)
(***************************************************************************)
CacheTables == {
    <<[name |-> "Hari Raya Aidilfitri", type |-> "national", date |-> <<2025, 3, 28>>]>>,
    FestivalTable }

CacheTargets == { Datetime(2025, 3, 27), Datetime(2025, 4, 4), Datetime(2026, 1, 9) }

InitCache ==
    /\ now = CalendarNow
    /\ apiKey = TRUE
    /\ liveTable = FestivalTable
    /\ cache = [y \in Years |-> NoCache]
    /\ cacheExpiry = [y \in Years |-> 0]
    /\ cal = NoCall
    /\ InitRest

CacheLookup ==
    \E t \in CacheTargets, fetch \in FetchOutcomes :
        /\ GetCalendarEvents(t, fetch)
        /\ UNCHANGED <<now, apiKey, liveTable, calPrev, csv, fc, pred, predPrev, history, resp>>

SourceChanges ==
    /\ liveTable' \in CacheTables \ {liveTable}
    /\ UNCHANGED <<now, apiKey, cache, cacheExpiry, cal, calPrev, csv, fc, pred,
                   predPrev, history, resp>>

ClockTick ==
    /\ now < CalendarNow + Days(2)
    /\ now' = now + 1
    /\ UNCHANGED <<apiKey, liveTable, cache, cacheExpiry, cal, calPrev, csv, fc,
                   pred, predPrev, history, resp>>

NextCache == CacheLookup \/ SourceChanges \/ ClockTick

SpecCache == InitCache /\ [][NextCache]_vars

(***************************************************************************)
(* C5: the band of the forecasted price.                                   *)
(***************************************************************************)
InBand(price) == price >= 500 /\ price <= 900

\* The prices of the rows that carry the latest parsed end date.
LatestPrices(rows) ==
    { rows[i].price : i \in { k \in 1 .. Len(rows) :
        /\ ParseDateRange(rows[k].range) # NoDate
        /\ \A m \in 1 .. Len(rows) :
               ParseDateRange(rows[m].range) <= ParseDateRange(rows[k].range) } }

\* C5 as claimed: on every method path the forecasted price returned by
\* get_price_forecast lies within [5.0, 9.0].
C5_AsClaimed == fc.called => InBand(fc.result.forecasted_price)

\* C5 as the code has it: whenever get_price_forecast answers, the price on
\* the trend_seasonal, fallback and fallback_error paths lies within
\* [5.0, 9.0]; on the current path (target at most 3 days ahead) it is the
\* price of a record with the latest parsed end date, whatever that price is.
C5_ClampedBeyondNearTerm ==
    [][fc' # fc =>
        LET r == fc'.result
        IN  /\ r.method \in {"current", "trend_seasonal", "fallback", "fallback_error"}
            /\ r.method # "current" => InBand(r.forecasted_price)
            /\ r.method = "current" =>
                   /\ DaysBetween(fc'.target, now) <= 3
                   /\ r.forecasted_price \in LatestPrices(csv.rows)
            /\ r.method = "trend_seasonal" => DaysBetween(fc'.target, now) > 3]_vars

\* C5 witness: a forecast more than 3 days ahead from a latest record of
\* 12.00 that the clamp brought down to 9.00.
C5_Witness ==
    /\ fc.called
    /\ fc.result.method = "trend_seasonal"
    /\ fc.result.forecasted_price = 900
    /\ 1200 \in LatestPrices(csv.rows)

(***************************************************************************)
(* C1: the demand tier bands.                                              *)
(***************************************************************************)
ClaimedTier(total_adjustment) ==
    IF total_adjustment >= Pct(30) THEN "High"
    ELSE IF total_adjustment >= Pct(15) THEN "Medium-High"
    ELSE IF total_adjustment >= 0 THEN "Medium"
    ELSE IF total_adjustment >= 0 - Pct(15) THEN "Medium-Low"
    ELSE "Low"

\* C1 as claimed: the tier predict reports follows the bands >= 0.30 High,
\* [0.15, 0.30) Medium-High, [0.0, 0.15) Medium, [-0.15, 0.0) Medium-Low,
\* < -0.15 Low of its total adjustment.
C1_AsClaimed == pred.called => pred.demand_level = ClaimedTier(pred.total_adjustment)

(***************************************************************************)
(* C6: the total adjustment and what is derived from it.                   *)
(***************************************************************************)
BothCalled == pred.called /\ predPrev.called

SumOfFactors(p) == p.inventory_factor + p.price_factor + p.calendar_factor + p.day_factor

\* Each factor is settled by its own input, over the last two predictions.
FactorsFromOwnInputs ==
    /\ pred.current_stock.total = predPrev.current_stock.total
           => pred.inventory_factor = predPrev.inventory_factor
    /\ pred.price_info.price = predPrev.price_info.price
           => pred.price_factor = predPrev.price_factor
    /\ pred.calendar_event = predPrev.calendar_event
           => pred.calendar_factor = predPrev.calendar_factor
    /\ Weekday(pred.target) = Weekday(predPrev.target)
           => pred.day_factor = predPrev.day_factor

\* C6 as claimed: the total is the sum of the four factors, each factor is
\* settled by its own input, and two predictions with the same total have
\* the same tier and the same overall confidence.
C6_AsClaimed ==
    /\ pred.called => pred.total_adjustment = SumOfFactors(pred)
    /\ BothCalled =>
           /\ FactorsFromOwnInputs
           /\ pred.total_adjustment = predPrev.total_adjustment
                  => /\ pred.demand_level = predPrev.demand_level
                     /\ pred.confidence = predPrev.confidence

\* C6 as the code has it: the total is the sum of the four factors, each
\* factor is settled by its own input, two predictions with the same total
\* have the same tier, and two predictions with the same total and the same
\* price confidence have the same overall confidence.
C6_ConfidenceAlsoFromPrice ==
    /\ pred.called => pred.total_adjustment = SumOfFactors(pred)
    /\ BothCalled =>
           /\ FactorsFromOwnInputs
           /\ pred.total_adjustment = predPrev.total_adjustment
                  => pred.demand_level = predPrev.demand_level
           /\ (/\ pred.total_adjustment = predPrev.total_adjustment
               /\ pred.price_info.confidence = predPrev.price_info.confidence)
                  => pred.confidence = predPrev.confidence

\* C6 witness: two predictions with the same non-zero total and the same
\* tier, one on the current price and one on a forecast of low confidence,
\* whose overall confidences differ.
C6_Witness ==
    /\ BothCalled
    /\ pred.total_adjustment = predPrev.total_adjustment
    /\ pred.total_adjustment # 0
    /\ pred.price_info.confidence # predPrev.price_info.confidence
    /\ pred.confidence # predPrev.confidence
    /\ pred.demand_level = predPrev.demand_level

(***************************************************************************)
(* C7: the bands of the inventory factor.                                  *)
(***************************************************************************)
ClaimedInventoryFactor(total) ==
    IF total < 100 THEN Pct(50)
    ELSE IF total \in 100 .. 299 THEN Pct(30)
    ELSE IF total \in 300 .. 499 THEN Pct(10)
    ELSE IF total \in 500 .. 1000 THEN 0
    ELSE IF total \in 1001 .. 1500 THEN 0 - Pct(15)
    ELSE 0 - Pct(30)

\* C7: in every prediction the inventory factor is the band value of
\* total = factory + kiosk: < 100 gives 0.5, 100..299 0.3, 300..499 0.1,
\* 500..1000 0.0, 1001..1500 -0.15, > 1500 -0.3, whatever the other factors.
C7_InventoryBands ==
    pred.called =>
        /\ pred.current_stock.total = pred.current_stock.factory + pred.current_stock.kiosk
        /\ pred.inventory_factor = ClaimedInventoryFactor(pred.current_stock.total)

\* C7 witness: a total of 50 held by the kiosks alone, with factor 0.5 next
\* to a non-zero price factor and a non-zero day-of-week factor.
C7_Witness ==
    /\ pred.called
    /\ pred.current_stock.total = 50
    /\ pred.current_stock.factory = 0
    /\ pred.inventory_factor = Pct(50)
    /\ pred.price_factor # 0
    /\ pred.day_factor # 0

(***************************************************************************)
(* C8: the single-record scenario, ten days ahead.                         *)
(***************************************************************************)
C8_Scenario ==
    /\ pred.called
    /\ DaysBetween(pred.target, now) = 10
    /\ Weekday(pred.target) = 1
    /\ ~pred.calendar_event.has_event
    /\ csv = File(<<[range |-> Week1, price |-> 650]>>)
    /\ pred.current_stock.total = 800

C8_Outcome ==
    /\ pred.inventory_factor = 0
    /\ pred.price_factor = Pct(15)
    /\ pred.day_factor = 0
    /\ pred.total_adjustment = Pct(15)
    /\ pred.demand_level = "Medium"

AccuracyAnswered == resp.called /\ resp.request.route = "accuracy" /\ resp.request.parses

\* The entries inside the trailing window that carry an actual.
Qualifying(days) ==
    { i \in 1 .. Len(history) :
        history[i].timestamp > now - Days(days) /\ history[i].actual # None }

Correct(days) ==
    { i \in Qualifying(days) : history[i].prediction.demand_level = history[i].actual }

\* C9: an accuracy read counts exactly the entries inside the trailing
\* window with a non-null actual and reports the share of them whose
\* predicted tier equals the actual tier, to the nearest hundredth of a
\* percent (correct <= total, percentage within 0..100); when no entry
\* qualifies the answer is the successful 'Insufficient historical data'
\* outcome.
C9_AccuracyOverWindow ==
    AccuracyAnswered =>
        LET q == Cardinality(Qualifying(resp.request.days))
            c == Cardinality(Correct(resp.request.days))
        IN  /\ resp.status = 200 /\ resp.success
            /\ q = 0 => /\ resp.data = NoData
                        /\ resp.message = "Insufficient historical data"
            /\ q > 0 => /\ resp.data.present
                        /\ resp.data.total_predictions = q
                        /\ resp.data.correct_predictions = c
                        /\ resp.data.correct_predictions <= resp.data.total_predictions
                        /\ resp.data.accuracy_percentage \in 0 .. 10000
                        /\ 2 * Abs(resp.data.accuracy_percentage * q - 10000 * c) <= q
                        /\ resp.data.period_days = resp.request.days

\* C9 witness: a 30-day accuracy read over a log holding one entry older
\* than the window and one recent entry without an actual, answered with
\* the insufficient-data outcome.
C9_Witness ==
    /\ AccuracyAnswered
    /\ resp.request.days = 30
    /\ \E i \in 1 .. Len(history) : history[i].timestamp <= now - Days(30)
    /\ \E i \in 1 .. Len(history) :
           history[i].timestamp > now - Days(30) /\ history[i].actual = None
    /\ resp.status = 200 /\ resp.success
    /\ resp.message = "Insufficient historical data"

\* An accuracy read over entries on both sides of the window's edge and
\* entries without an actual, with two of three predictions right.
C9_CountedShare ==
    /\ AccuracyAnswered
    /\ resp.data.present
    /\ resp.data.total_predictions = 3
    /\ resp.data.accuracy_percentage = 6667

(***************************************************************************)
(* C10: invalid record requests.                                           *)
(***************************************************************************)
InvalidRecord(request) ==
    \/ request.date = MissingField
    \/ request.actual_demand \notin ValidLevels
    \/ ~StrptimeAccepts(request.date)

\* C10 as claimed: a record request with a missing field, a label outside
\* the five tiers or a date not in year-month-day format gets the
\* rejected-request answer (status 400, success false, a message), and the
\* history log is left unchanged.
C10_AsClaimed ==
    [][(resp' # resp /\ resp'.request.route = "record" /\ InvalidRecord(resp'.request)) =>
        /\ resp'.status = 400
        /\ ~resp'.success
        /\ resp'.message # ""
        /\ history' = history]_vars

\* What the code does for C10's requests: none is accepted and the log is
\* left unchanged; a missing field and a label outside the tiers get status
\* 400, a date that strptime refuses gets status 500, the answer of an
\* internal error.
C10_RefusedDateIsServerError ==
    [][(resp' # resp /\ resp'.request.route = "record" /\ InvalidRecord(resp'.request)) =>
        /\ ~resp'.success
        /\ resp'.message # ""
        /\ history' = history
        /\ resp'.status =
               IF \/ resp'.request.date = MissingField
                  \/ resp'.request.actual_demand \notin ValidLevels
               THEN 400 ELSE 500]_vars

(***************************************************************************)
(* C11: predictions when the collaborators fail.                           *)
(***************************************************************************)
PredictionFields ==
    {"called", "target", "target_date", "demand_level", "current_stock",
     "inventory_factor", "price_factor", "calendar_factor", "day_factor",
     "total_adjustment", "calendar_event", "price_info", "confidence"}

\* C11: with the stock source failing or unsuccessful every prediction is a
\* complete record on the stock 500 / 300, whatever the holiday source
\* does; with the price file empty, unreadable or without a parseable row
\* the price is 6.5, and for a target more than 3 days ahead the price
\* confidence is Low with method fallback or fallback_error.
C11_BestEffortRecord ==
    pred.called =>
        /\ DOMAIN pred = PredictionFields
        /\ pred.demand_level \in ValidLevels
        /\ pred.confidence \in {"Low", "Medium", "Medium-High", "High"}
        /\ pred.calendar_event.type \in
               {"festival", "pre-festival", "post-festival", "ramadan",
                "school-holiday", "friday", "normal"}
        /\ pred.calendar_factor = pred.calendar_event.factor
        /\ pred.current_stock = [factory |-> 500, kiosk |-> 300, total |-> 800]
        /\ pred.inventory_factor = 0
        /\ csv \in DegradedFiles =>
               /\ pred.price_info.price = 650
               /\ pred.price_factor = Pct(15)
               /\ DaysBetween(pred.target, now) > 3 =>
                      /\ pred.price_info.source = "forecasted"
                      /\ pred.price_info.confidence = "Low"
                      /\ pred.price_info.method =
                             (IF csv.readable THEN "fallback" ELSE "fallback_error")
               /\ DaysBetween(pred.target, now) <= 3 =>
                      /\ pred.price_info.source = "current"
                      /\ pred.price_info.confidence = "High"

\* C11 witness: a prediction 10 days ahead with the stock service down, a
\* key configured but no holiday obtained, and the price file unreadable.
C11_Witness ==
    /\ pred.called
    /\ DaysBetween(pred.target, now) = 10
    /\ apiKey /\ cal.called /\ cal.holidays = <<>>
    /\ ~csv.readable
    /\ pred.price_info.method = "fallback_error"
    /\ pred.current_stock.total = 800

(***************************************************************************)
(* C12: the default target date.                                           *)
(***************************************************************************)
RestockWeekdays == {0, 3, 5}

\* C12: a prediction asked without a date is for the earliest of today,
\* today+1, ..., today+6 whose weekday is Monday, Thursday or Saturday
\* (today itself on a restock day), at the clock's time of day.
C12_EarliestRestockDay ==
    pred.called =>
        LET ahead == DayOf(pred.target) - DayOf(now)
        IN  /\ ahead \in 0 .. 6
            /\ pred.target = now + Days(ahead)
            /\ Weekday(pred.target) \in RestockWeekdays
            /\ \A e \in 0 .. 6 : e < ahead => Weekday(now + Days(e)) \notin RestockWeekdays
            /\ Weekday(now) \in RestockWeekdays => pred.target = now

\* C12 witness: asked on a Tuesday, the prediction is for the Thursday two
\* days on.
C12_Witness ==
    /\ pred.called
    /\ Weekday(now) = 1
    /\ pred.target = now + Days(2)
    /\ Weekday(pred.target) = 3

\* Asked on a restock day, the prediction is for that day.
C12_TodayItself == pred.called /\ Weekday(now) = 5 /\ pred.target = now

(***************************************************************************)
(* C13: the predictions of the next two weeks.                             *)
(***************************************************************************)
WeekAnswered == resp.called /\ resp.request.route = "week"

\* C13: the list predict_next_week returns holds exactly one prediction for
\* each of today, today+1, ..., today+13 that is a Monday, Thursday or
\* Saturday, none for another date, in ascending date order; it has at most
\* 6 entries (and always exactly 6).
C13_RestockDaysOfTwoWeeks ==
    WeekAnswered =>
        LET predictions == resp.data.predictions
            at(i) == { k \in 1 .. Len(predictions) : predictions[k].target = now + Days(i) }
        IN  /\ \A i \in 0 .. 13 :
                   Cardinality(at(i)) =
                       IF Weekday(now + Days(i)) \in RestockWeekdays THEN 1 ELSE 0
            /\ \A k \in 1 .. Len(predictions) :
                   /\ \E i \in 0 .. 13 : predictions[k].target = now + Days(i)
                   /\ predictions[k].target_date = Strftime(predictions[k].target)
                   /\ k > 1 => predictions[k - 1].target < predictions[k].target
            /\ Len(predictions) \in 0 .. 6
            /\ Len(predictions) = 6

\* C13 witness: asked on a Wednesday, the list starts with the Thursday one
\* day on and ends with the Monday 12 days on.
C13_Witness ==
    /\ WeekAnswered
    /\ Weekday(now) = 2
    /\ Len(resp.data.predictions) = 6
    /\ resp.data.predictions[1].target = now + Days(1)
    /\ resp.data.predictions[6].target = now + Days(12)

(***************************************************************************)
(* C14: the history log is append-only.                                    *)
(***************************************************************************)
RecordAccepted(r) == r.called /\ r.request.route = "record" /\ r.status = 200

\* C14: over record, accuracy, history-read and predict steps the log only
\* grows at its end: a step that changes it is an accepted record, keeps
\* every earlier entry in place and appends the one entry (now, the
\* prediction just made, the actual of the request); an accepted record
\* appends; every other step leaves the log as it is.
C14_AppendOnly ==
    [][/\ history' # history =>
              /\ RecordAccepted(resp')
              /\ Len(history') = Len(history) + 1
              /\ SubSeq(history', 1, Len(history)) = history
              /\ history'[Len(history')] =
                     [timestamp |-> now, prediction |-> pred',
                      actual |-> resp'.request.actual_demand]
       /\ (resp' # resp /\ RecordAccepted(resp')) => Len(history') = Len(history) + 1
       /\ (resp' # resp /\ ~RecordAccepted(resp')) => history' = history
      ]_vars

\* C14 witness: a stored entry followed by two entries recorded at
\* different times, seen by a read of the history.
C14_Witness ==
    /\ Len(history) = 3
    /\ history[1] = Stored(HistoryNow - Days(40), "Medium", None)
    /\ history[2].timestamp < history[3].timestamp
    /\ history[3].actual = "Medium"
    /\ resp.called /\ resp.request.route = "history"
    /\ Len(resp.data.entries) = 2

(***************************************************************************)
(* C15: pre-festival before post-festival over the whole table.            *)
(***************************************************************************)
\* The holidays of the resolver's list whose window of the given kind
\* covers the target date.
InWindowOf(kind) ==
    {i \in 1 .. Len(cal.holidays) :
        LET e == ProximityEvent(cal.target, cal.holidays[i], "live_api")
        IN  e.has_event /\ e.type = kind}

\* C15 as claimed: a date that is no holiday's date, within pre_days before
\* one holiday of the table and within post_days after another, resolves to
\* kind pre-festival, whatever the order of the two holidays in the table.
C15_AsClaimed ==
    (/\ cal.called
     /\ OnTargetDate = {}
     /\ InWindowOf("pre-festival") # {}
     /\ InWindowOf("post-festival") # {}) =>
        /\ cal.result.has_event
        /\ cal.result.type = "pre-festival"

(***************************************************************************)
(* C16: the resolver as a function of the calendar date.                   *)
(***************************************************************************)
\* C16 as claimed: two calls of the resolver with the same holiday list and
\* target instants of the same calendar day give the same kind and the same
\* factor.
C16_AsClaimed ==
    (/\ cal.called /\ calPrev.called
     /\ cal.holidays = calPrev.holidays
     /\ DayOf(cal.target) = DayOf(calPrev.target)) =>
        /\ cal.result.type = calPrev.result.type
        /\ cal.result.factor = calPrev.result.factor

(***************************************************************************)
(* C17: the near-term price of the forecaster and of predict.              *)
(***************************************************************************)
NearTerm(t) == DaysBetween(t, now) <= 3

\* The prices of the rows with the latest parsed end date.
LatestEndPrices ==
    LET df == WithEndDates(csv.rows)
    IN  {df[i].price : i \in {j \in 1 .. Len(df) : \A l \in 1 .. Len(df) : df[l].end_date <= df[j].end_date}}

\* C17 as claimed: with a row that has an end date in the file, a forecast
\* and a prediction for targets at most 3 days ahead both give a price of a
\* row of the latest end date, confidence High, method current, and the
\* same price; a prediction takes its price from the forecaster exactly
\* when its target is more than 3 days ahead.
C17_AsClaimed ==
    /\ pred.called => (pred.price_info.source = "forecasted" <=> ~NearTerm(pred.target))
    /\ (pred.called /\ fc.called /\ NearTerm(pred.target) /\ NearTerm(fc.target)
        /\ LatestEndPrices # {}) =>
           /\ fc.result.forecasted_price \in LatestEndPrices
           /\ fc.result.confidence = "High" /\ fc.result.method = "current"
           /\ pred.price_info.price \in LatestEndPrices
           /\ pred.price_info.confidence = "High" /\ pred.price_info.method = "current"
           /\ pred.price_info.price = fc.result.forecasted_price

(***************************************************************************)
(* C18: the overall confidence.                                            *)
(***************************************************************************)
\* The table of the claim: the quantity tier, the two scores, their average
\* (compared doubled: 2.5, 1.5 and 0.5 are 5, 3 and 1) and the label.
ClaimedScore(label) ==
    CASE label = "High" -> 3
      [] label = "Medium-High" -> 2
      [] label = "Medium" -> 1
      [] label = "Low" -> 0

ClaimedQuantityTier(total_adjustment) ==
    IF Abs(total_adjustment) > Pct(50) THEN "Medium"
    ELSE IF Abs(total_adjustment) > Pct(30) THEN "Medium-High"
    ELSE "High"

ClaimedConfidence(total_adjustment, price_confidence) ==
    LET twice == ClaimedScore(ClaimedQuantityTier(total_adjustment)) + ClaimedScore(price_confidence)
    IN  IF twice >= 5 THEN "High"
        ELSE IF twice >= 3 THEN "Medium-High"
        ELSE IF twice >= 1 THEN "Medium"
        ELSE "Low"

\* C18: the overall confidence of a prediction is the label the table gives
\* for its total adjustment and its price confidence, which is one of Low,
\* Medium and High.
C18_ConfidenceTable ==
    pred.called =>
        /\ pred.price_info.confidence \in {"Low", "Medium", "High"}
        /\ pred.confidence = ClaimedConfidence(pred.total_adjustment, pred.price_info.confidence)

\* C18 witness: a total adjustment between 0.3 and 0.5 with a price
\* confidence Medium: scores 2 and 1, average 1.5, Medium-High.
C18_Witness ==
    /\ pred.called
    /\ Abs(pred.total_adjustment) > Pct(30) /\ Abs(pred.total_adjustment) <= Pct(50)
    /\ pred.price_info.confidence = "Medium"
    /\ pred.confidence = "Medium-High"

(***************************************************************************)
(* C20: the overall confidence is never Low.                               *)
(***************************************************************************)
\* C20: every prediction has an overall confidence of High, Medium-High or
\* Medium, whatever its total adjustment and its price confidence.
C20_NeverLow ==
    pred.called => pred.confidence \in {"High", "Medium-High", "Medium"}

\* C20 witness: the lowest case, a total adjustment beyond 0.5 with a price
\* confidence Low, is Medium.
C20_Witness ==
    /\ pred.called
    /\ Abs(pred.total_adjustment) > Pct(50)
    /\ pred.price_info.confidence = "Low"
    /\ pred.confidence = "Medium"

(***************************************************************************)
(* C19: the holiday cache of 24 hours.                                     *)
(***************************************************************************)
\* A successful fetch of year y at time t leaves cacheExpiry[y] = t + 24 h:
\* the lookup is before t + 24 hours.
WithinDayOfFetch(y) == cache[y].present /\ now < cacheExpiry[y]

\* C19: a lookup of a year's holidays within 24 hours of the last successful
\* fetch of that year gives the cached list and leaves cache and expiry as
\* they are, whatever the source would answer; a lookup with no cached list
\* or at or after the 24 hours asks the source, and either takes its table
\* as the new cached list with an expiry 24 hours on, or, the fetch failing,
\* gives the empty list and leaves cache and expiry as they are.  No other
\* year's entry changes, and no other step changes the cache.
C19_CacheOfOneDay ==
    [][/\ (now' # now \/ liveTable' # liveTable) =>
              cache' = cache /\ cacheExpiry' = cacheExpiry
       /\ (now' = now /\ liveTable' = liveTable) =>
              LET y == YearOf(cal'.target)
              IN  /\ \A z \in Years \ {y} : cache'[z] = cache[z] /\ cacheExpiry'[z] = cacheExpiry[z]
                  /\ IF WithinDayOfFetch(y)
                     THEN /\ cal'.holidays = cache[y].holidays
                          /\ cache' = cache /\ cacheExpiry' = cacheExpiry
                     ELSE \/ /\ cal'.holidays = LiveFor(y)
                             /\ cache'[y] = [present |-> TRUE, holidays |-> LiveFor(y)]
                             /\ cacheExpiry'[y] = now + Days(1)
                          \/ /\ cal'.holidays = <<>>
                             /\ cache' = cache /\ cacheExpiry' = cacheExpiry
      ]_vars

\* C19 witness: a lookup of this year's holidays 24 hours or more after
\* the fetch that filled the cache; the request it issued failed, it gave
\* the empty list and the cached list and its expiry are as they were.
C19_Witness ==
    /\ cal.called /\ YearOf(cal.target) = 2025
    /\ cal.holidays = <<>>
    /\ cache[2025].present /\ cache[2025].holidays # <<>>
    /\ cache[2025].holidays # LiveFor(2025)
    /\ now >= cacheExpiry[2025]

(***************************************************************************)
(* C21: a prediction without a date is near-term.                          *)
(***************************************************************************)
\* C21: a prediction asked without a date, on whatever weekday, is for a
\* restock day at most 2 days ahead (the scan found one, tomorrow was not
\* fallen back to), and its price is the current price: source current,
\* confidence High, method current, not the forecaster's.
C21_DefaultIsNearTerm ==
    pred.called =>
        /\ DayOf(pred.target) - DayOf(now) \in 0 .. 2
        /\ Weekday(pred.target) \in {0, 3, 5}
        /\ pred.price_info.source = "current"
        /\ pred.price_info.confidence = "High"
        /\ pred.price_info.method = "current"
        /\ pred.price_info.price = GetCurrentPrice

\* C21 witness: the farthest case, asked on a Tuesday after midnight: the
\* target is the Thursday two days on and the price is the current one.
C21_Witness ==
    /\ pred.called
    /\ Weekday(now) = 1 /\ now % TicksPerDay # 0
    /\ DayOf(pred.target) - DayOf(now) = 2
    /\ pred.price_info.source = "current"
    /\ pred.price_info.confidence = "High"

====
